---- MODULE Spec2Model ----
(***************************************************************************)
(* Model of the NSO admin console's activation-key page                    *)
(* (src/src/pages/ActivationKeys.tsx), of the API client it calls          *)
(* (src/src/services/api.ts), of the session (src/src/contexts/            *)
(* AuthContext.tsx, src/src/services/authService.ts, src/src/App.tsx) and  *)
(* of the key display component and of the Users page                      *)
(* (src/unnamed/part_001).                                                 *)
(*                                                                         *)
(* Text the code inspects character by character (form fields) is a        *)
(* sequence of one-character strings; text the code only passes along      *)
(* (messages, key ids, statuses) is an atomic string.                      *)
(***************************************************************************)
EXTENDS Integers, Sequences, FiniteSets, TLC

VARIABLES
    keys,               \* useState<ActivationKey[]>          (line 78)
    loading,            \* useState(true)                     (line 79)
    error,              \* useState<string | null>            (line 80)
    isCreateDialogOpen, \* line 81
    isViewDialogOpen,   \* line 82
    selectedKey,        \* line 83
    anchorEl,           \* line 84, TRUE when the row menu is anchored
    pagination,         \* line 85
    searchTerm,         \* line 90
    statusFilter,       \* line 91
    snackbar,           \* line 92
    formData,           \* line 99
    formErrors,         \* line 113
    now,                \* the clock read by `new Date()`
    generateDisabled,   \* `disabled` of the Generate Key button as last rendered
    inflight,           \* requests sent and not yet answered, oldest first
    settled,            \* how the last apiService promise settled
    authToken,          \* api.ts line 17, the in-memory token
    storedToken,        \* localStorage 'admin_token'
    pathname,           \* window.location.pathname
    unloading,          \* window.location.href was assigned: the document is going
    user,               \* AuthContext.tsx line 29
    isLoading,          \* AuthContext.tsx line 30
    initPhase,          \* where initializeAuth stands: start, awaiting, done
    pending,            \* calls of authService and of the bare apiClient under way
    loginReturn,        \* what the last call of AuthContext.login returned
    lastConfig,         \* the last request that left a request interceptor
    activationKey,      \* ActivationKeyDisplay's prop
    isKeyVisible,       \* ActivationKeyDisplay's state (line 1121)
    props,              \* ActivationKeyDisplay's other props as the parent passed them
    clicks,             \* how often the show/hide button was clicked
    displaySnackbar,    \* ActivationKeyDisplay's snackbar state (line 1122)
    clipboard,          \* the texts put on the clipboard, oldest first
    onCopyCalls,        \* the calls of the parent's onCopy, oldest first
    copying,            \* calls of clipboard.writeText not yet settled
    copyCount,          \* how often handleCopyToClipboard was called
    users,              \* Users page: useState<User[]>       (part_001 line 81)
    usersLoading,       \* Users page: loading                (line 82)
    usersAnchorEl,      \* Users page: TRUE when the row menu is anchored (line 86)
    selectedUser,       \* Users page: line 87
    openDialog,         \* Users page: line 88
    dialogType,         \* Users page: line 89
    usersSnackbar,      \* Users page: line 96
    usersInflight       \* Users page: requests sent and not yet answered

vars == <<keys, loading, error, isCreateDialogOpen, isViewDialogOpen, selectedKey,
          anchorEl, pagination, searchTerm, statusFilter, snackbar, formData,
          formErrors, now, generateDisabled, inflight, settled, authToken,
          storedToken, pathname, unloading, user, isLoading, initPhase, pending,
          loginReturn, lastConfig, activationKey, isKeyVisible, props, clicks,
          displaySnackbar, clipboard, onCopyCalls, copying, copyCount, users,
          usersLoading, usersAnchorEl, selectedUser, openDialog, dialogType,
          usersSnackbar, usersInflight>>

\* JavaScript's undefined / null.
Undefined == "undefined"
Null == "null"

----------------------------------------------------------------------------
(* Bounds of the model *)

\* Longest e-mail text tried by the validation specification.
MaxEmailLen == 6
\* The clock runs from 0 to MaxNow.
MaxNow == 1

----------------------------------------------------------------------------
(* Strings *)

Whitespace == {" "}
EmailChars == {"a", "@", ".", " "}

RECURSIVE TrimStart(_)
TrimStart(s) ==
    IF s = <<>> THEN <<>>
    ELSE IF Head(s) \in Whitespace THEN TrimStart(Tail(s)) ELSE s

RECURSIVE TrimEnd(_)
TrimEnd(s) ==
    IF s = <<>> THEN <<>>
    ELSE IF s[Len(s)] \in Whitespace THEN TrimEnd(SubSeq(s, 1, Len(s) - 1)) ELSE s

\* String.prototype.trim
Trim(s) == TrimEnd(TrimStart(s))

\* JavaScript truthiness of a string: only '' is falsy.
Truthy(s) == s # <<>>

\* \S+ starting at position i: the positions right after each possible match.
RECURSIVE NonSpaceRun(_, _)
NonSpaceRun(s, i) ==
    IF i > Len(s) \/ s[i] \in Whitespace THEN {}
    ELSE {i + 1} \cup NonSpaceRun(s, i + 1)

\* A literal character c at position i: the position after it, if it matches.
Literal(s, i, c) == IF i <= Len(s) /\ s[i] = c THEN {i + 1} ELSE {}

\* /\S+@\S+\.\S+/ tried at start position i, by backtracking over the runs.
EmailRegexMatchesAt(s, i) ==
    \E a \in NonSpaceRun(s, i) :
        \E b \in Literal(s, a, "@") :
            \E c \in NonSpaceRun(s, b) :
                \E d \in Literal(s, c, ".") :
                    NonSpaceRun(s, d) # {}

\* The regular expression without its '\.' part (what a typo would leave).
EmailRegexNoDot(s) ==
    \E i \in 1..Len(s) :
        \E a \in NonSpaceRun(s, i) :
            \E b \in Literal(s, a, "@") : NonSpaceRun(s, b) # {}

\* /\S+@\S+\.\S+/.test(s): the pattern is not anchored.
EmailRegexTest(s) == \E i \in 1..Len(s) : EmailRegexMatchesAt(s, i)

----------------------------------------------------------------------------
(* Dates *)

\* Date strings the form can hold: '' (nothing picked), text that is not a
\* date, and three consecutive days, the first of them at time 0 of the clock.
DateStrings == {"", "not-a-date", "2029-12-31", "2030-01-01", "2030-01-02"}

\* new Date(s): an Invalid Date (time NaN) or a point on the clock.
NewDate(s) ==
    CASE s = "2029-12-31" -> [nan |-> FALSE, time |-> 0]
      [] s = "2030-01-01" -> [nan |-> FALSE, time |-> 1]
      [] s = "2030-01-02" -> [nan |-> FALSE, time |-> 2]
      [] OTHER -> [nan |-> TRUE, time |-> 0]

\* d <= n on Date objects: a comparison with NaN is false.
DateLessOrEqual(d, n) == ~d.nan /\ d.time <= n

----------------------------------------------------------------------------
(* Validation: buildErrors *)

MsgNameRequired == "Full name is required"
MsgEmailRequired == "Email is required"
MsgEmailInvalid == "Email is invalid"
MsgRoleRequired == "Role is required"
MsgExpiryRequired == "Expiration date is required"
MsgExpiryFuture == "Expiration date must be in the future"

NoErrors == [k \in {} |-> ""]

fullNameErrors(f) ==
    IF ~Truthy(Trim(f.userDetails.fullName)) THEN "fullName" :> MsgNameRequired
    ELSE NoErrors

emailErrors(f) ==
    IF ~Truthy(Trim(f.userDetails.email)) THEN "email" :> MsgEmailRequired
    ELSE IF ~EmailRegexTest(f.userDetails.email) THEN "email" :> MsgEmailInvalid
    ELSE NoErrors

roleErrors(f) ==
    IF ~Truthy(f.userDetails.role) THEN "role" :> MsgRoleRequired
    ELSE NoErrors

expiresAtErrors(f, clock) ==
    IF f.expiresAt = "" THEN "expiresAt" :> MsgExpiryRequired
    ELSE IF DateLessOrEqual(NewDate(f.expiresAt), clock)
         THEN "expiresAt" :> MsgExpiryFuture
         ELSE NoErrors

\* buildErrors(f): the error object, flattened to its leaf fields, and valid.
buildErrors(f, clock) ==
    LET errors == fullNameErrors(f) @@ emailErrors(f) @@ roleErrors(f)
                    @@ expiresAtErrors(f, clock)
    IN [errors |-> errors, valid |-> DOMAIN errors = {}]

----------------------------------------------------------------------------
(* The server's answers and the shared axios client (api.ts) *)

Statuses == {"active", "used", "expired", "revoked"}

\* Text the server may put in a body's `error` and `message` fields.
SrvError == "Key quota exceeded"
SrvMessage == "Email already has a key"

\* Longest page of keys a list answer carries.
MaxKeys == 1

\* A key as the backend sends it; _id may be missing.
BackendKeys == [_id : {"k1", Undefined}, status : Statuses, role : {"nurse"}]

RECURSIVE SeqsUpTo(_, _)
SeqsUpTo(S, n) ==
    IF n = 0 THEN {<<>>}
    ELSE LET shorter == SeqsUpTo(S, n - 1)
         IN shorter \cup {Append(q, x) : q \in {r \in shorter : Len(r) = n - 1}, x \in S}

NoBody == [success |-> FALSE, error |-> Undefined, message |-> Undefined,
           hasData |-> FALSE, hasKeys |-> FALSE, keys |-> <<>>, total |-> 0]

\* Bodies of a rejection: any mix of the `error` and `message` fields.
FailureBodies ==
    {[NoBody EXCEPT !.error = e, !.message = m] :
        e \in {Undefined, SrvError}, m \in {Undefined, SrvMessage}}

\* Bodies of a 2xx answer to GET /admin/activation-keys: a page of keys with
\* pagination.total (0 when absent), data without `keys`, no data at all, or
\* success false.
ListBodies ==
    {[NoBody EXCEPT !.success = TRUE, !.hasData = TRUE, !.hasKeys = TRUE,
                    !.keys = ks, !.total = t] :
        ks \in SeqsUpTo(BackendKeys, MaxKeys), t \in {0, 12}}
    \cup {[NoBody EXCEPT !.success = TRUE, !.hasData = TRUE],
          [NoBody EXCEPT !.success = TRUE]}
    \cup FailureBodies

\* Bodies of a 2xx answer to the two POST endpoints.
PostBodies == {[NoBody EXCEPT !.success = TRUE, !.hasData = TRUE]} \cup FailureBodies

\* What comes back for a request: status 0 stands for no response at all
\* (timeout, connection refused), otherwise the HTTP status and the body.
ErrorResponses ==
    {[status |-> 0, data |-> NoBody]}
    \cup [status : {401, 500}, data : FailureBodies]

ListResponses == [status : {200}, data : ListBodies] \cup ErrorResponses
PostResponses == [status : {200}, data : PostBodies] \cup ErrorResponses

\* axios rejects when there is no response or the status is outside 2xx.
AxiosRejects(resp) == resp.status < 200 \/ resp.status >= 300

\* error.message of the AxiosError.
AxiosMessage(resp) ==
    IF resp.status = 0 THEN "Network Error" ELSE "Request failed"

\* The response interceptor's error branch: a 401 clears the token and
\* sends the browser to /login.
InterceptToken(resp, token) == IF resp.status = 401 THEN Null ELSE token
InterceptPath(resp, path) == IF resp.status = 401 THEN "/login" ELSE path
\* Assigning window.location.href (line 58) makes the browser leave the
\* document and load the application again.
InterceptUnloading(resp, path, flag) ==
    IF resp.status = 401 /\ path # "/login" THEN TRUE ELSE flag

\* a || b on optional strings.
OrElse(a, b) == IF a # Undefined /\ a # "" THEN a ELSE b

Fulfilled(v) == [state |-> "fulfilled", value |-> v]
\* The promise rejects with the AxiosError; value is unused.
Rejected(resp) == [state |-> "rejected", value |-> NoBody]

MsgFetchFailed == "Failed to fetch activation keys"
MsgCreateFailed == "Failed to create activation key"
MsgRevokeFailed == "Failed to revoke activation key"

\* apiService.getActivationKeys without its try/catch.
getActivationKeysNoCatch(resp) ==
    IF AxiosRejects(resp) THEN Rejected(resp) ELSE Fulfilled(resp.data)

\* apiService.getActivationKeys
getActivationKeys(resp) ==
    IF AxiosRejects(resp)
    THEN Fulfilled([NoBody EXCEPT !.error = MsgFetchFailed, !.hasData = TRUE])
    ELSE Fulfilled(resp.data)

\* apiService.createActivationKey
createActivationKey(resp) ==
    IF AxiosRejects(resp)
    THEN Fulfilled([NoBody EXCEPT !.error = OrElse(resp.data.error, MsgCreateFailed)])
    ELSE Fulfilled(resp.data)

\* apiService.revokeActivationKey
revokeActivationKey(resp) ==
    IF AxiosRejects(resp)
    THEN Fulfilled([NoBody EXCEPT !.error = OrElse(resp.data.error, MsgRevokeFailed)])
    ELSE Fulfilled(resp.data)

----------------------------------------------------------------------------
(* The session: users, tokens and the two axios clients' interceptors
   (src/src/services/authService.ts, src/src/services/api.ts) *)

\* String.prototype.startsWith
StartsWith(s, prefix) ==
    Len(s) >= Len(prefix) /\ SubSeq(s, 1, Len(prefix)) = prefix

\* String.prototype.includes on texts the code searches (URLs).
StringIncludes(hay, needle) ==
    \E i \in 1..(Len(hay) - Len(needle) + 1) :
        SubSeq(hay, i, i + Len(needle) - 1) = needle

\* Array.prototype.includes
ArrayIncludes(arr, x) == \E i \in 1..Len(arr) : arr[i] = x

\* No user: null, or the `user` a body does not have.
NoUser == [id |-> "", name |-> "", email |-> "", role |-> "", permissions |-> <<>>]

\* The user of the first demo account, as login builds it (lines 71-84).
DemoAdmin ==
    [id |-> "admin-1", name |-> "NSO Administrator", email |-> "admin@nso.gov.ng",
     role |-> "super_admin",
     permissions |-> <<"users.read", "users.write", "analytics.read", "sync.manage",
                       "activity.read", "settings.write">>]

\* The user of the second demo account, as login builds it (lines 99-109).
DemoAnalyst ==
    [id |-> "analyst-1", name |-> "Data Analyst", email |-> "analyst@nso.gov.ng",
     role |-> "analyst",
     permissions |-> <<"analytics.read", "activity.read", "users.read">>]

\* A user only the server knows.
ServerUser ==
    [id |-> "u-7", name |-> "Key Clerk", email |-> "clerk@nso.gov.ng",
     role |-> "admin", permissions |-> <<"users.read", "keys.manage">>]

\* The token the server issues.
ServerToken == "jwt-7"

\* 'mock-admin-token-' + Date.now()  (line 70)
MockAdminToken(clock) == "mock-admin-token-" \o ToString(clock)
\* 'mock-analyst-token-' + Date.now()  (line 98)
MockAnalystToken(clock) == "mock-analyst-token-" \o ToString(clock)

\* What the login form can hold when it is submitted.
Credentials ==
    {[email |-> "admin@nso.gov.ng", password |-> "admin123"],
     [email |-> "analyst@nso.gov.ng", password |-> "analyst123"],
     [email |-> "admin@nso.gov.ng", password |-> "analyst123"],
     [email |-> "clerk@nso.gov.ng", password |-> "clerk123"],
     [email |-> "", password |-> "clerk123"]}

\* Bodies the server may answer POST /admin/login and GET /admin/verify with:
\* `success`, whether there is `data` (with its token and user), and `user`.
NoAuthBody == [success |-> FALSE, hasData |-> FALSE, token |-> "", user |-> NoUser]
AuthBodies ==
    {NoAuthBody,
     [NoAuthBody EXCEPT !.success = TRUE],
     [NoAuthBody EXCEPT !.hasData = TRUE, !.token = ServerToken, !.user = ServerUser],
     [NoAuthBody EXCEPT !.success = TRUE, !.hasData = TRUE, !.token = ServerToken,
                        !.user = ServerUser]}

\* Answers to a request of a client: status 0 is no response at all.
AuthResponses ==
    [status : {0, 401, 500}, data : {NoAuthBody}] \cup [status : {200}, data : AuthBodies]

\* A request as it leaves a request interceptor: the headers it carries.
NoConfig == [client |-> "none", url |-> "", authorization |-> Undefined,
             xAdminToken |-> Undefined]

\* The request interceptor of api.ts (lines 20-36).
ApiRequestConfig(url, token) ==
    LET admin == StringIncludes(url, "/admin/") IN
    [client |-> "api", url |-> url,
     authorization |-> IF token # Null /\ ~admin THEN "Bearer " \o token ELSE Undefined,
     xAdminToken |-> IF admin
                     THEN IF token # Null THEN token ELSE "admin-access-token"
                     ELSE Undefined]

\* The request interceptor of authService.ts (lines 38-44).
AuthRequestConfig(url, stored) ==
    [client |-> "auth", url |-> url,
     authorization |-> IF stored # Null THEN "Bearer " \o stored ELSE Undefined,
     xAdminToken |-> Undefined]

\* AuthService.login for the demo accounts (lines 66-115): the mock response,
\* or NoAuthBody when the credentials are not a demo account's.
MockLogin(cred, clock) ==
    IF cred.email = "admin@nso.gov.ng" /\ cred.password = "admin123"
    THEN [success |-> TRUE, hasData |-> TRUE, token |-> MockAdminToken(clock),
          user |-> DemoAdmin]
    ELSE IF cred.email = "analyst@nso.gov.ng" /\ cred.password = "analyst123"
    THEN [success |-> TRUE, hasData |-> TRUE, token |-> MockAnalystToken(clock),
          user |-> DemoAnalyst]
    ELSE NoAuthBody

\* verifyToken comparing the whole token instead of its beginning.
MockVerifyExact(token) ==
    IF token = "mock-admin-token" THEN DemoAdmin
    ELSE IF token = "mock-analyst-token" THEN DemoAnalyst
    ELSE NoUser

\* AuthService.verifyToken for the mock tokens (lines 136-165): the user, or
\* NoUser when the token is not a mock token.
MockVerify(token) ==
    IF StartsWith(token, "mock-admin-token")
    THEN [id |-> "admin-1", name |-> "NSO Administrator", email |-> "admin@nso.gov.ng",
          role |-> "super_admin",
          permissions |-> <<"users.read", "users.write", "analytics.read",
                            "sync.manage", "activity.read", "settings.write">>]
    ELSE IF StartsWith(token, "mock-analyst-token")
    THEN [id |-> "analyst-1", name |-> "Data Analyst", email |-> "analyst@nso.gov.ng",
          role |-> "analyst",
          permissions |-> <<"analytics.read", "activity.read", "users.read">>]
    ELSE NoUser

----------------------------------------------------------------------------
(* The page: ActivationKeys.tsx *)

\* Requests the page may have in flight at once.
MaxInFlight == 2

EmptyForm ==
    [userDetails |-> [fullName |-> <<>>, email |-> <<>>, phone |-> <<>>,
                      role |-> <<>>, facility |-> <<>>, state |-> <<>>],
     expiresAt |-> "", notes |-> <<>>]

\* A completely filled form expiring on the first day.
FilledForm ==
    [userDetails |-> [fullName |-> <<"a">>, email |-> <<"a", "@", "a", ".", "a">>,
                      phone |-> <<"a">>, role |-> <<"a">>, facility |-> <<"a">>,
                      state |-> <<"a">>],
     expiresAt |-> "2030-01-01", notes |-> <<>>]

\* Forms typed into the dialog on the page.
PageForms ==
    {EmptyForm, FilledForm,
     [FilledForm EXCEPT !.userDetails.facility = <<>>],
     [FilledForm EXCEPT !.expiresAt = "not-a-date"]}

NullKey == [keyId |-> Undefined, status |-> Null, role |-> ""]

SnackClosed == [open |-> FALSE, message |-> "", detail |-> "", severity |-> "success"]
Snack(sev, msg, detail) ==
    [open |-> TRUE, message |-> msg, detail |-> detail, severity |-> sev]

\* How an apiService promise settled, with what the server had answered:
\* the status, the body's error and message, and of the promise's value the
\* fields a caller branches on.
NotSettled == [api |-> "none", status |-> 0, srvError |-> Undefined,
               srvMessage |-> Undefined, state |-> "pending", success |-> FALSE,
               error |-> Undefined, message |-> Undefined]
Settle(api, resp, outcome) ==
    [api |-> api, status |-> resp.status, srvError |-> resp.data.error,
     srvMessage |-> resp.data.message, state |-> outcome.state,
     success |-> outcome.value.success, error |-> outcome.value.error,
     message |-> outcome.value.message]

PagePath == "/activation-keys"
Mounted == pathname = PagePath

\* The argument fetchKeys passes to getActivationKeys (lines 169-174).
FetchParams(pg, search, status) ==
    [page |-> pg.page + 1, limit |-> pg.limit,
     status |-> IF status = "all" THEN Undefined ELSE status,
     search |-> IF search = "" THEN Undefined ELSE search]

CurrentParams == FetchParams(pagination, searchTerm, statusFilter)

NoParams == [page |-> 0, limit |-> 0, status |-> Undefined, search |-> Undefined]

\* A request in flight: the endpoint, the handler waiting for the answer, the
\* query of a list request (for a revoke request, the query its handler will
\* fetch with afterwards) and the key of a revoke request.
ListRequest(params, caller) ==
    [kind |-> "list", caller |-> caller, params |-> params, keyId |-> ""]
CreateRequest ==
    [kind |-> "create", caller |-> "handleCreateKey", params |-> NoParams,
     keyId |-> ""]
RevokeRequest(keyId, params) ==
    [kind |-> "revoke", caller |-> "handleRevokeKey", params |-> params,
     keyId |-> keyId]

Remove(q, i) == SubSeq(q, 1, i - 1) \o SubSeq(q, i + 1, Len(q))

\* `disabled` of the Generate Key button, computed when the page renders.
GenerateDisabled(ld, fd) == ld \/ ~buildErrors(fd, now).valid

\* The key shown for a backend key (lines 178-200).
TransformKey(b) == [keyId |-> b._id, status |-> b.status, role |-> b.role]
TransformKeys(bs) == [i \in 1..Len(bs) |-> TransformKey(bs[i])]

\* String.prototype.includes on the words of the model: no word contains
\* another one.
Includes(hay, needle) == needle = "" \/ needle = hay

\* filteredKeys (lines 420-432): the rows of the table.
FilteredKeys ==
    {keys[i] : i \in {j \in 1..Len(keys) :
        /\ Includes(keys[j].role, searchTerm)
        /\ (statusFilter = "all" \/ keys[j].status = statusFilter)}}

NoModal == ~isCreateDialogOpen /\ ~isViewDialogOpen /\ ~anchorEl

authVars == <<authToken, storedToken, pathname, unloading>>
sessionVars == <<user, isLoading, initPhase, pending, loginReturn, lastConfig>>
usersVars == <<users, usersLoading, usersAnchorEl, selectedUser, openDialog,
               dialogType, usersSnackbar, usersInflight>>
copyVars == <<displaySnackbar, clipboard, onCopyCalls, copying, copyCount>>
displayVars == <<activationKey, isKeyVisible, props, clicks, copyVars>>
filterVars == <<searchTerm, statusFilter>>
menuVars == <<selectedKey, anchorEl>>
formVars == <<formData, formErrors>>

\* ActivationKeyDisplay's snackbar as useState leaves it (lines 1122-1126).
DisplaySnackClosed == [open |-> FALSE, message |-> "", severity |-> "success"]

\* The props of a display that was given the key only.
KeyOnlyProps ==
    [given |-> {}, showFullKey |-> FALSE, compact |-> FALSE, shortCode |-> <<>>]

\* No key display is on the screen: the table is empty and no dialog is open.
NoDisplay ==
    /\ activationKey = <<>>
    /\ isKeyVisible = FALSE
    /\ props = KeyOnlyProps
    /\ clicks = 0
    /\ displaySnackbar = DisplaySnackClosed
    /\ clipboard = <<>>
    /\ onCopyCalls = <<>>
    /\ copying = <<>>
    /\ copyCount = 0

\* selectedUser when it is null.
NoSelectedUser == [id |-> "", status |-> "null"]

\* The Users page's state as its useState calls leave it (part_001 lines
\* 81-100), with the requests `reqs` under way.
UsersPageState(reqs) ==
    /\ users = <<>>
    /\ usersLoading = TRUE
    /\ usersAnchorEl = FALSE
    /\ selectedUser = NoSelectedUser
    /\ openDialog = FALSE
    /\ dialogType = "view"
    /\ usersSnackbar = DisplaySnackClosed
    /\ usersInflight = reqs

\* The Users page is not on the screen.
NoUsersPage == UsersPageState(<<>>)

\* The page after it mounted, with the form and the clock given.
InitWith(form, clock) ==
    /\ keys = <<>>
    /\ loading = TRUE
    /\ error = Null
    /\ isCreateDialogOpen = FALSE
    /\ isViewDialogOpen = FALSE
    /\ selectedKey = NullKey
    /\ anchorEl = FALSE
    /\ pagination = [page |-> 0, limit |-> 10, total |-> 0]
    /\ searchTerm = ""
    /\ statusFilter = "all"
    /\ snackbar = SnackClosed
    /\ formData = form
    /\ formErrors = NoErrors
    /\ now = clock
    /\ generateDisabled = TRUE
    \* the mount effect (lines 226-228) has called fetchKeys
    /\ inflight = <<ListRequest(FetchParams([page |-> 0, limit |-> 10, total |-> 0],
                                            "", "all"), "fetchKeys")>>
    /\ settled = NotSettled
    /\ authToken = "tok"
    /\ storedToken = "tok"
    /\ pathname = PagePath
    /\ unloading = FALSE
    \* the page renders for a signed-in user
    /\ user = DemoAdmin
    /\ isLoading = FALSE
    /\ initPhase = "done"
    /\ pending = <<>>
    /\ loginReturn = "none"
    /\ lastConfig = NoConfig
    /\ NoDisplay
    /\ NoUsersPage

Init == InitWith(EmptyForm, 0)

\* Time passes; nothing renders.
Tick ==
    /\ now < MaxNow
    /\ now' = now + 1
    /\ UNCHANGED <<keys, loading, error, isCreateDialogOpen, isViewDialogOpen,
                   selectedKey, anchorEl, pagination, searchTerm, statusFilter,
                   snackbar, formData, formErrors, generateDisabled, inflight,
                   settled, authToken, storedToken, pathname, unloading, sessionVars,
                   displayVars, usersVars>>

\* The Generate Key button of the header (line 458).
OpenCreateDialog ==
    /\ Mounted /\ NoModal
    /\ isCreateDialogOpen' = TRUE
    /\ generateDisabled' = GenerateDisabled(loading, formData)
    /\ UNCHANGED <<keys, loading, error, isViewDialogOpen, menuVars, pagination,
                   filterVars, snackbar, formVars, now, inflight, settled, authVars, sessionVars,
                   displayVars, usersVars>>

\* Cancel or the dialog's onClose (lines 663, 908).
CloseCreateDialog ==
    /\ Mounted /\ isCreateDialogOpen
    /\ isCreateDialogOpen' = FALSE
    /\ generateDisabled' = GenerateDisabled(loading, formData)
    /\ UNCHANGED <<keys, loading, error, isViewDialogOpen, menuVars, pagination,
                   filterVars, snackbar, formVars, now, inflight, settled, authVars, sessionVars,
                   displayVars, usersVars>>

\* setFormData (line 99), called by the fields of the dialog.
SetFormData(f) ==
    /\ Mounted /\ isCreateDialogOpen
    /\ f # formData
    /\ formData' = f
    /\ generateDisabled' = GenerateDisabled(loading, f)
    /\ UNCHANGED <<keys, loading, error, isCreateDialogOpen, isViewDialogOpen,
                   menuVars, pagination, filterVars, snackbar, formErrors, now,
                   inflight, settled, authVars, sessionVars,
                   displayVars, usersVars>>

\* handleCreateKey without the `return` of its validation branch.
handleCreateKeyNoReturn ==
    LET v == buildErrors(formData, now) IN
    /\ Mounted
    /\ formErrors' = v.errors
    /\ snackbar' = IF ~v.valid
                   THEN Snack("warning", "Please fill in all required fields correctly.", "")
                   ELSE snackbar
    /\ Len(inflight) < MaxInFlight
    /\ loading' = TRUE
    /\ inflight' = Append(inflight, CreateRequest)
    /\ generateDisabled' = TRUE
    /\ UNCHANGED <<keys, error, isCreateDialogOpen, isViewDialogOpen, menuVars,
                   pagination, filterVars, formData, now, settled, authVars, sessionVars,
                   displayVars, usersVars>>

\* handleCreateKey with a validation that trims the name in the form it is
\* given.
handleCreateKeyTrimsForm ==
    LET v == buildErrors(formData, now) IN
    /\ Mounted
    /\ formErrors' = v.errors
    /\ formData' = [formData EXCEPT !.userDetails.fullName = Trim(@)]
    /\ IF ~v.valid
       THEN /\ snackbar' = Snack("warning", "Please fill in all required fields correctly.", "")
            /\ generateDisabled' = GenerateDisabled(loading, formData)
            /\ UNCHANGED <<loading, inflight>>
       ELSE /\ Len(inflight) < MaxInFlight
            /\ loading' = TRUE
            /\ inflight' = Append(inflight, CreateRequest)
            /\ generateDisabled' = TRUE
            /\ UNCHANGED snackbar
    /\ UNCHANGED <<keys, error, isCreateDialogOpen, isViewDialogOpen, menuVars,
                   pagination, filterVars, now, settled, authVars, sessionVars,
                   displayVars, usersVars>>

\* handleCreateKey that lets only one creation be under way.
handleCreateKeyOneAtATime ==
    LET v == buildErrors(formData, now) IN
    /\ Mounted
    /\ formErrors' = v.errors
    /\ IF ~v.valid
       THEN /\ snackbar' = Snack("warning", "Please fill in all required fields correctly.", "")
            /\ generateDisabled' = GenerateDisabled(loading, formData)
            /\ UNCHANGED <<loading, inflight>>
       ELSE IF \E k \in 1..Len(inflight) : inflight[k].kind = "create"
       THEN /\ snackbar' = Snack("info", "A key is being created.", "")
            /\ generateDisabled' = TRUE
            /\ UNCHANGED <<loading, inflight>>
       ELSE /\ Len(inflight) < MaxInFlight
            /\ loading' = TRUE
            /\ inflight' = Append(inflight, CreateRequest)
            /\ generateDisabled' = TRUE
            /\ UNCHANGED snackbar
    /\ UNCHANGED <<keys, error, isCreateDialogOpen, isViewDialogOpen, menuVars,
                   pagination, filterVars, formData, now, settled, authVars, sessionVars,
                   displayVars, usersVars>>

\* handleCreateKey up to its await (lines 255-270).
handleCreateKey ==
    LET v == buildErrors(formData, now) IN
    /\ Mounted
    /\ formErrors' = v.errors
    /\ IF ~v.valid
       THEN /\ snackbar' = Snack("warning", "Please fill in all required fields correctly.", "")
            /\ generateDisabled' = GenerateDisabled(loading, formData)
            /\ UNCHANGED <<loading, inflight>>
       ELSE /\ Len(inflight) < MaxInFlight
            /\ loading' = TRUE
            /\ inflight' = Append(inflight, CreateRequest)
            /\ generateDisabled' = TRUE
            /\ UNCHANGED snackbar
    /\ UNCHANGED <<keys, error, isCreateDialogOpen, isViewDialogOpen, menuVars,
                   pagination, filterVars, formData, now, settled, authVars, sessionVars,
                   displayVars, usersVars>>

\* A click on the dialog's Generate Key button (lines 911-920).
ClickGenerateKey ==
    /\ isCreateDialogOpen /\ ~generateDisabled
    /\ handleCreateKey

\* errorMessage of line 298, for the result r of createActivationKey.
CreateErrorMessage(r) == OrElse(OrElse(r.error, r.message), "Unknown error occurred")

\* The rest of handleCreateKey, run when the POST is answered (lines 270-316),
\* followed by the effect of lines 226-228 when the page number changed.
CreateResponse(i, resp) ==
    LET out == createActivationKey(resp)
        r == out.value
        moved == pagination.page # 0
        firstPage == [pagination EXCEPT !.page = 0]
    IN
    /\ Mounted
    /\ i \in 1..Len(inflight) /\ inflight[i].kind = "create"
        /\ authToken' = IF AxiosRejects(resp) THEN InterceptToken(resp, authToken) ELSE authToken
    /\ storedToken' = IF AxiosRejects(resp) THEN InterceptToken(resp, storedToken) ELSE storedToken
    /\ pathname' = IF AxiosRejects(resp) THEN InterceptPath(resp, pathname) ELSE pathname
    /\ unloading' = IF AxiosRejects(resp) THEN InterceptUnloading(resp, pathname, unloading)
                  ELSE unloading
    /\ IF out.state = "fulfilled" /\ r.success
       THEN /\ snackbar' = Snack("success", "Activation key created successfully!", "")
            /\ formData' = EmptyForm
            /\ isCreateDialogOpen' = FALSE
            /\ pagination' = firstPage
            /\ loading' = moved
            /\ error' = IF moved THEN Null ELSE error
            /\ inflight' =
                 IF moved
                 THEN Append(Remove(inflight, i),
                             ListRequest(FetchParams(firstPage, searchTerm, statusFilter),
                                         "fetchKeys"))
                 ELSE Remove(inflight, i)
       ELSE /\ snackbar' =
                 IF out.state = "fulfilled"
                 THEN Snack("error", "Failed to create key: ", CreateErrorMessage(r))
                 ELSE Snack("error", "Failed to create activation key: ",
                            OrElse(OrElse(OrElse(resp.data.error, resp.data.message),
                                          AxiosMessage(resp)), "Network error occurred"))
            /\ loading' = FALSE
            /\ inflight' = Remove(inflight, i)
            /\ UNCHANGED <<formData, isCreateDialogOpen, pagination, error>>
    /\ generateDisabled' = GenerateDisabled(loading', formData')
    /\ UNCHANGED <<keys, isViewDialogOpen, menuVars, filterVars, formErrors, now,
                   settled, sessionVars, displayVars, usersVars>>

\* fetchKeys up to its await (lines 164-174), for the page state given.
StartFetch(params, caller) ==
    /\ Len(inflight) < MaxInFlight
    /\ loading' = TRUE
    /\ error' = Null
    /\ inflight' = Append(inflight, ListRequest(params, caller))

\* The Refresh button (lines 525-533).
ClickRefresh ==
    /\ Mounted /\ NoModal /\ ~loading
    /\ StartFetch(CurrentParams, "fetchKeys")
    /\ generateDisabled' = TRUE
    /\ UNCHANGED <<keys, isCreateDialogOpen, isViewDialogOpen, menuVars, pagination,
                   filterVars, snackbar, formVars, now, settled, authVars, sessionVars,
                   displayVars, usersVars>>

SearchTerms == {"", "zzz"}
\* Options of the status select tried by the model (lines 515-519).
StatusFilters == {"all", "active"}
\* Options of rowsPerPageOptions (line 647) tried by the model.
RowsPerPageOptions == {5, 10}

\* The search box (line 502); the effect of lines 226-228 fetches again.
SetSearchTerm(s) ==
    /\ Mounted /\ NoModal
    /\ s # searchTerm
    /\ searchTerm' = s
    /\ StartFetch(FetchParams(pagination, s, statusFilter), "fetchKeys")
    /\ generateDisabled' = TRUE
    /\ UNCHANGED <<keys, isCreateDialogOpen, isViewDialogOpen, menuVars, pagination,
                   statusFilter, snackbar, formVars, now, settled, authVars, sessionVars,
                   displayVars, usersVars>>

\* The status select (line 513); the effect of lines 226-228 fetches again.
SetStatusFilter(s) ==
    /\ Mounted /\ NoModal
    /\ s # statusFilter
    /\ statusFilter' = s
    /\ StartFetch(FetchParams(pagination, searchTerm, s), "fetchKeys")
    /\ generateDisabled' = TRUE
    /\ UNCHANGED <<keys, isCreateDialogOpen, isViewDialogOpen, menuVars, pagination,
                   searchTerm, snackbar, formVars, now, settled, authVars, sessionVars,
                   displayVars, usersVars>>

\* Pages the table's pagination control can go to from the current one.
ReachablePages ==
    {p \in {pagination.page - 1, pagination.page + 1} :
        p >= 0 /\ p * pagination.limit < pagination.total}

\* handleChangePage (lines 231-233), then the effect.
handleChangePage(newPage) ==
    /\ Mounted /\ NoModal /\ ~loading
    /\ newPage \in ReachablePages
    /\ pagination' = [pagination EXCEPT !.page = newPage]
    /\ StartFetch(FetchParams(pagination', searchTerm, statusFilter), "fetchKeys")
    /\ generateDisabled' = TRUE
    /\ UNCHANGED <<keys, isCreateDialogOpen, isViewDialogOpen, menuVars, filterVars,
                   snackbar, formVars, now, settled, authVars, sessionVars,
                   displayVars, usersVars>>

\* handleChangeRowsPerPage (lines 235-241), then the effect.
handleChangeRowsPerPage(limit) ==
    /\ Mounted /\ NoModal /\ ~loading
    /\ limit # pagination.limit
    /\ pagination' = [pagination EXCEPT !.limit = limit, !.page = 0]
    /\ StartFetch(FetchParams(pagination', searchTerm, statusFilter), "fetchKeys")
    /\ generateDisabled' = TRUE
    /\ UNCHANGED <<keys, isCreateDialogOpen, isViewDialogOpen, menuVars, filterVars,
                   snackbar, formVars, now, settled, authVars, sessionVars,
                   displayVars, usersVars>>

\* fetchKeys takes the branch of lines 177-209 and finishes it: the promise
\* resolved, with success and data, and data.keys can be mapped.
FetchOk(out) ==
    out.state = "fulfilled" /\ out.value.success /\ out.value.hasData
        /\ out.value.hasKeys

\* The total fetchKeys forgets to reset when the fetch failed.
FetchedTotalStale(out) ==
    IF FetchOk(out)
    THEN IF out.value.total # 0 THEN out.value.total ELSE Len(out.value.keys)
    ELSE pagination.total

\* pagination.total as fetchKeys sets it (lines 205-209, 213, 219).
FetchedTotal(out) ==
    IF FetchOk(out)
    THEN IF out.value.total # 0 THEN out.value.total ELSE Len(out.value.keys)
    ELSE 0

\* The rest of fetchKeys, run when the GET is answered (lines 176-222); a
\* fetch awaited by handleRevokeKey then closes the menu (line 355).
ListResponse(i, resp) ==
    LET out == getActivationKeys(resp)
        r == out.value
        shown == TransformKeys(r.keys)
        ok == FetchOk(out)
    IN
    /\ Mounted
    /\ i \in 1..Len(inflight) /\ inflight[i].kind = "list"
        /\ authToken' = IF AxiosRejects(resp) THEN InterceptToken(resp, authToken) ELSE authToken
    /\ storedToken' = IF AxiosRejects(resp) THEN InterceptToken(resp, storedToken) ELSE storedToken
    /\ pathname' = IF AxiosRejects(resp) THEN InterceptPath(resp, pathname) ELSE pathname
    /\ unloading' = IF AxiosRejects(resp) THEN InterceptUnloading(resp, pathname, unloading)
                  ELSE unloading
    /\ IF ok
       THEN /\ keys' = shown
            /\ UNCHANGED error
       ELSE /\ error' = MsgFetchFailed
            /\ keys' = <<>>
    /\ pagination' = [pagination EXCEPT !.total = FetchedTotal(out)]
    /\ loading' = FALSE
    /\ inflight' = Remove(inflight, i)
    /\ IF inflight[i].caller = "handleRevokeKey"
       THEN anchorEl' = FALSE /\ selectedKey' = NullKey
       ELSE UNCHANGED menuVars
    /\ generateDisabled' = GenerateDisabled(FALSE, formData)
    /\ UNCHANGED <<isCreateDialogOpen, isViewDialogOpen, filterVars, snackbar,
                   formVars, now, settled, sessionVars, displayVars, usersVars>>

\* handleMenuOpen (lines 244-247), from the button of a table row (line 634).
handleMenuOpen(key) ==
    /\ Mounted /\ NoModal /\ ~loading
    /\ key \in FilteredKeys
    /\ anchorEl' = TRUE
    /\ selectedKey' = key
    /\ generateDisabled' = GenerateDisabled(loading, formData)
    /\ UNCHANGED <<keys, loading, error, isCreateDialogOpen, isViewDialogOpen,
                   pagination, filterVars, snackbar, formVars, now, inflight,
                   settled, authVars, sessionVars,
                   displayVars, usersVars>>

\* handleMenuClose (lines 249-252), as the menu's onClose (line 1029).
handleMenuClose ==
    /\ Mounted /\ anchorEl
    /\ anchorEl' = FALSE
    /\ selectedKey' = NullKey
    /\ generateDisabled' = GenerateDisabled(loading, formData)
    /\ UNCHANGED <<keys, loading, error, isCreateDialogOpen, isViewDialogOpen,
                   pagination, filterVars, snackbar, formVars, now, inflight,
                   settled, authVars, sessionVars,
                   displayVars, usersVars>>

\* The View Details item (lines 1031-1037).
ClickViewDetails ==
    /\ Mounted /\ anchorEl
    /\ isViewDialogOpen' = TRUE
    /\ anchorEl' = FALSE
    /\ selectedKey' = NullKey
    /\ generateDisabled' = GenerateDisabled(loading, formData)
    /\ UNCHANGED <<keys, loading, error, isCreateDialogOpen, pagination, filterVars,
                   snackbar, formVars, now, inflight, settled, authVars, sessionVars,
                   displayVars, usersVars>>

\* Close, or the details dialog's onClose (lines 927, 1019).
CloseViewDialog ==
    /\ Mounted /\ isViewDialogOpen
    /\ isViewDialogOpen' = FALSE
    /\ generateDisabled' = GenerateDisabled(loading, formData)
    /\ UNCHANGED <<keys, loading, error, isCreateDialogOpen, menuVars, pagination,
                   filterVars, snackbar, formVars, now, inflight, settled, authVars, sessionVars,
                   displayVars, usersVars>>

\* handleRevokeKey without its keyId check.
handleRevokeKeyNoIdCheck(keyId) ==
    /\ Mounted
    /\ Len(inflight) < MaxInFlight
    /\ inflight' = Append(inflight, RevokeRequest(keyId, CurrentParams))
    /\ generateDisabled' = GenerateDisabled(loading, formData)
    /\ UNCHANGED <<keys, loading, error, isCreateDialogOpen, isViewDialogOpen,
                   menuVars, pagination, filterVars, snackbar, formVars, now, settled,
                   authVars, sessionVars,
                   displayVars, usersVars>>

\* handleRevokeKey up to its await (lines 320-331).  The fetchKeys it will
\* call after the await is the one of the render that made this handler, so
\* the request remembers the parameters of that render.
handleRevokeKey(keyId) ==
    /\ Mounted
    /\ IF keyId = ""
       THEN /\ snackbar' = Snack("error", "Invalid key ID", "")
            /\ UNCHANGED inflight
       ELSE /\ Len(inflight) < MaxInFlight
            /\ inflight' = Append(inflight, RevokeRequest(keyId, CurrentParams))
            /\ UNCHANGED snackbar
    /\ generateDisabled' = GenerateDisabled(loading, formData)
    /\ UNCHANGED <<keys, loading, error, isCreateDialogOpen, isViewDialogOpen,
                   menuVars, pagination, filterVars, formVars, now, settled, authVars, sessionVars,
                   displayVars, usersVars>>

\* The Revoke Key item is rendered for any selected key.
RevokeItemShownAlways == selectedKey # NullKey

\* The Revoke Key item is rendered (line 1039).
RevokeItemShown == selectedKey # NullKey /\ selectedKey.status = "active"

\* A click on the Revoke Key item (lines 1039-1044).
ClickRevokeKey ==
    /\ anchorEl /\ RevokeItemShown
    /\ handleRevokeKey(OrElse(selectedKey.keyId, ""))

\* handleRevokeKey after a successful answer, without the call of fetchKeys.
RevokeSucceededNoRefetch(i) ==
    /\ snackbar' = Snack("success", "Activation key revoked successfully", "")
    /\ inflight' = Remove(inflight, i)
    /\ anchorEl' = FALSE
    /\ selectedKey' = NullKey
    /\ UNCHANGED <<loading, error>>

\* handleRevokeKey after a successful answer (lines 333-339): it calls
\* fetchKeys, which runs up to its own await, and waits for it.
RevokeSucceeded(i) ==
    /\ snackbar' = Snack("success", "Activation key revoked successfully", "")
    /\ loading' = TRUE
    /\ error' = Null
    /\ inflight' = Append(Remove(inflight, i),
                          ListRequest(inflight[i].params, "handleRevokeKey"))
    /\ UNCHANGED menuVars

\* handleRevokeKey after a failure (lines 340-355).
RevokeFailed(i, out) ==
    /\ snackbar' =
         IF out.state = "fulfilled"
         THEN Snack("error", "Failed to revoke key: ", out.value.error)
         ELSE Snack("error", MsgRevokeFailed, "")
    /\ inflight' = Remove(inflight, i)
    /\ anchorEl' = FALSE
    /\ selectedKey' = NullKey
    /\ UNCHANGED <<loading, error>>

\* The rest of handleRevokeKey, run when the POST is answered.
RevokeResponse(i, resp) ==
    LET out == revokeActivationKey(resp) IN
    /\ Mounted
    /\ i \in 1..Len(inflight) /\ inflight[i].kind = "revoke"
    /\ authToken' = IF AxiosRejects(resp) THEN InterceptToken(resp, authToken) ELSE authToken
    /\ storedToken' = IF AxiosRejects(resp) THEN InterceptToken(resp, storedToken) ELSE storedToken
    /\ pathname' = IF AxiosRejects(resp) THEN InterceptPath(resp, pathname) ELSE pathname
    /\ unloading' = IF AxiosRejects(resp) THEN InterceptUnloading(resp, pathname, unloading)
                  ELSE unloading
    /\ IF out.state = "fulfilled" /\ out.value.success
       THEN RevokeSucceeded(i)
       ELSE RevokeFailed(i, out)
    /\ generateDisabled' = GenerateDisabled(loading', formData)
    /\ UNCHANGED <<keys, isCreateDialogOpen, isViewDialogOpen, pagination, filterVars,
                   formVars, now, settled, sessionVars, displayVars, usersVars>>

Next ==
    \/ Tick
    \/ OpenCreateDialog
    \/ CloseCreateDialog
    \/ \E f \in PageForms : SetFormData(f)
    \/ ClickGenerateKey
    \/ \E i \in 1..MaxInFlight, resp \in PostResponses : CreateResponse(i, resp)
    \/ ClickRefresh
    \/ \E s \in SearchTerms : SetSearchTerm(s)
    \/ \E s \in StatusFilters : SetStatusFilter(s)
    \/ \E p \in ReachablePages : handleChangePage(p)
    \/ \E l \in RowsPerPageOptions : handleChangeRowsPerPage(l)
    \/ \E i \in 1..MaxInFlight, resp \in ListResponses : ListResponse(i, resp)
    \/ \E k \in FilteredKeys : handleMenuOpen(k)
    \/ handleMenuClose
    \/ ClickViewDetails
    \/ CloseViewDialog
    \/ ClickRevokeKey
    \/ \E i \in 1..MaxInFlight, resp \in PostResponses : RevokeResponse(i, resp)

Spec == Init /\ [][Next]_vars

----------------------------------------------------------------------------
(* The create-key workflow alone: the dialog, its form, the clock, and the
   list requests the page sends on its own. *)

NextCreate ==
    \/ Tick
    \/ OpenCreateDialog
    \/ CloseCreateDialog
    \/ \E f \in PageForms : SetFormData(f)
    \/ ClickGenerateKey
    \/ \E i \in 1..MaxInFlight, resp \in PostResponses : CreateResponse(i, resp)
    \/ \E p \in ReachablePages : handleChangePage(p)
    \/ \E i \in 1..MaxInFlight, resp \in ListResponses : ListResponse(i, resp)

SpecCreate == Init /\ [][NextCreate]_vars

(* The key list alone: the filters, the pagination and the list requests. *)

NextList ==
    \/ ClickRefresh
    \/ \E s \in SearchTerms : SetSearchTerm(s)
    \/ \E s \in StatusFilters : SetStatusFilter(s)
    \/ \E p \in ReachablePages : handleChangePage(p)
    \/ \E l \in RowsPerPageOptions : handleChangeRowsPerPage(l)
    \/ \E i \in 1..MaxInFlight, resp \in ListResponses : ListResponse(i, resp)

SpecList == Init /\ [][NextList]_vars

(* The row menu and revocation, over a list the user refreshes and filters
   by status. *)

NextRevoke ==
    \/ ClickRefresh
    \/ \E s \in StatusFilters : SetStatusFilter(s)
    \/ \E i \in 1..MaxInFlight, resp \in ListResponses : ListResponse(i, resp)
    \/ \E k \in FilteredKeys : handleMenuOpen(k)
    \/ handleMenuClose
    \/ ClickViewDetails
    \/ CloseViewDialog
    \/ ClickRevokeKey
    \/ \E i \in 1..MaxInFlight, resp \in PostResponses : RevokeResponse(i, resp)

SpecRevoke == Init /\ [][NextRevoke]_vars

----------------------------------------------------------------------------
(* Creation while the list is being fetched: the search box, the creation
   dialog and the answers to both kinds of request. *)

NextOverlap ==
    \/ \E s \in SearchTerms : SetSearchTerm(s)
    \/ OpenCreateDialog
    \/ CloseCreateDialog
    \/ \E f \in PageForms : SetFormData(f)
    \/ ClickGenerateKey
    \/ \E i \in 1..MaxInFlight, resp \in PostResponses : CreateResponse(i, resp)
    \/ \E i \in 1..MaxInFlight, resp \in ListResponses : ListResponse(i, resp)

SpecOverlap == Init /\ [][NextOverlap]_vars

----------------------------------------------------------------------------
(* Validation alone: handleCreateKey called on any form, at any time. *)

TextSamples == {<<>>, <<" ">>, <<"a">>}

\* Every e-mail text up to MaxEmailLen characters, in a form otherwise filled.
EmailForms ==
    {[FilledForm EXCEPT !.userDetails.email = e] : e \in SeqsUpTo(EmailChars, MaxEmailLen)}

\* Every mix of empty, blank and filled fields, and every date.
FieldForms ==
    {[userDetails |-> [fullName |-> n, email |-> e, phone |-> p, role |-> r,
                       facility |-> f, state |-> st],
      expiresAt |-> d, notes |-> <<>>] :
        n \in TextSamples, e \in {<<>>, <<" ">>, FilledForm.userDetails.email},
        p \in TextSamples, r \in TextSamples, f \in TextSamples,
        st \in TextSamples, d \in DateStrings}

InitValidate == \E f \in EmailForms \cup FieldForms, t \in 0..MaxNow : InitWith(f, t)

NextValidate == handleCreateKey

SpecValidate == InitValidate /\ [][NextValidate]_vars

----------------------------------------------------------------------------
(* The API client alone: any caller of the three activation-key methods. *)

QueryParams ==
    [page : {1, 2}, limit : RowsPerPageOptions, status : {Undefined, "active"},
     search : {Undefined}]

ApiRequests ==
    {ListRequest(q, "fetchKeys") : q \in QueryParams}
    \cup {CreateRequest}
    \cup {RevokeRequest("k1", q) : q \in QueryParams}

ApiName(kind) ==
    CASE kind = "list" -> "getActivationKeys"
      [] kind = "create" -> "createActivationKey"
      [] kind = "revoke" -> "revokeActivationKey"

ApiResponses(kind) == IF kind = "list" THEN ListResponses ELSE PostResponses

ApiOutcome(kind, resp) ==
    CASE kind = "list" -> getActivationKeys(resp)
      [] kind = "create" -> createActivationKey(resp)
      [] kind = "revoke" -> revokeActivationKey(resp)

\* A method of apiService is called and sends its request.
ApiCall(req) ==
    /\ Mounted
    /\ Len(inflight) < MaxInFlight
    /\ inflight' = Append(inflight, req)
    /\ UNCHANGED <<keys, loading, error, isCreateDialogOpen, isViewDialogOpen,
                   menuVars, pagination, filterVars, snackbar, formVars, now,
                   generateDisabled, settled, authVars, sessionVars,
                   displayVars, usersVars>>

\* The request is answered: the response interceptor runs (lines 44-64) and
\* the method's promise settles.
ApiSettle(i, resp) ==
    /\ Mounted
    /\ i \in 1..Len(inflight)
    /\ resp \in ApiResponses(inflight[i].kind)
    /\ settled' = Settle(ApiName(inflight[i].kind), resp, ApiOutcome(inflight[i].kind, resp))
    /\ authToken' = IF AxiosRejects(resp) THEN InterceptToken(resp, authToken) ELSE authToken
    /\ storedToken' = IF AxiosRejects(resp) THEN InterceptToken(resp, storedToken) ELSE storedToken
    /\ pathname' = IF AxiosRejects(resp) THEN InterceptPath(resp, pathname) ELSE pathname
    /\ unloading' = IF AxiosRejects(resp) THEN InterceptUnloading(resp, pathname, unloading)
                  ELSE unloading
    /\ inflight' = Remove(inflight, i)
    /\ UNCHANGED <<keys, loading, error, isCreateDialogOpen, isViewDialogOpen,
                   menuVars, pagination, filterVars, snackbar, formVars, now,
                   generateDisabled, sessionVars, displayVars, usersVars>>

NextApi ==
    \/ \E req \in ApiRequests : ApiCall(req)
    \/ \E i \in 1..MaxInFlight, resp \in ListResponses \cup PostResponses : ApiSettle(i, resp)

SpecApi == Init /\ [][NextApi]_vars

----------------------------------------------------------------------------
(* The session: AuthContext.tsx, authService.ts, App.tsx, and requests sent
   with the bare apiClient of api.ts *)

\* Calls of the two clients that may be under way at once.
MaxPending == 2

pageVars == <<keys, loading, error, isCreateDialogOpen, isViewDialogOpen,
              selectedKey, anchorEl, pagination, searchTerm, statusFilter, snackbar,
              formData, formErrors, generateDisabled, inflight, settled>>

\* The routes of App.tsx (lines 71-78) that render a page.
RoutePaths == {"/login", "/dashboard", "/users", "/activation-keys", "/analytics",
               "/sync", "/activity", "/settings"}

\* What AppContent renders (App.tsx lines 28-35, 69-80): the loading screen,
\* the login screen, or the page of the route.
Screen ==
    IF isLoading THEN "loading"
    ELSE IF user = NoUser \/ pathname = "/login" THEN "login"
    ELSE pathname

\* menuItems of the sidebar: path and permission of each entry; the
\* dashboard needs none.
MenuPermission ==
    [p \in RoutePaths \ {"/login"} |->
        CASE p = "/dashboard" -> Undefined
          [] p = "/users" -> "users.read"
          [] p = "/activation-keys" -> "keys.manage"
          [] p = "/analytics" -> "analytics.read"
          [] p = "/sync" -> "sync.manage"
          [] p = "/activity" -> "activity.read"
          [] p = "/settings" -> "settings.write"]

\* hasPermission of the sidebar.
hasPermission(permission) ==
    IF permission = Undefined THEN TRUE
    ELSE ArrayIncludes(user.permissions, permission) \/ user.role = "super_admin"

\* filteredMenuItems, by path: the entries the sidebar offers.
filteredMenuItems == {p \in DOMAIN MenuPermission : hasPermission(MenuPermission[p])}

\* A call under way: the client, the operation waiting for it, the URL, and
\* for the timer of a demo login the response it will resolve with.
Pending(client, op, url, body) ==
    [client |-> client, op |-> op, url |-> url, body |-> body]

\* Tokens localStorage may hold when the application starts.
StoredTokens == {Null, MockAdminToken(0), MockAnalystToken(0), ServerToken}

\* The application has loaded: api.ts has read the stored token (line 17) and
\* AuthProvider has rendered once; no page is mounted.
InitSession ==
    /\ keys = <<>> /\ loading = TRUE /\ error = Null
    /\ isCreateDialogOpen = FALSE /\ isViewDialogOpen = FALSE
    /\ selectedKey = NullKey /\ anchorEl = FALSE
    /\ pagination = [page |-> 0, limit |-> 10, total |-> 0]
    /\ searchTerm = "" /\ statusFilter = "all"
    /\ snackbar = SnackClosed
    /\ formData = EmptyForm /\ formErrors = NoErrors
    /\ now = 0
    /\ generateDisabled = TRUE
    /\ inflight = <<>>
    /\ settled = NotSettled
    /\ storedToken \in StoredTokens
    /\ authToken = storedToken
    /\ pathname \in {"/dashboard", "/login"}
    /\ unloading = FALSE
    /\ user = NoUser
    /\ isLoading = TRUE
    /\ initPhase = "start"
    /\ pending = <<>>
    /\ loginReturn = "none"
    /\ lastConfig = NoConfig
    /\ NoDisplay
    /\ NoUsersPage

\* A response interceptor that leaves the stored token alone.
AuthInterceptStoredKept(resp, stored) == stored

\* The response interceptor of authService.ts (lines 51-60): a 401 removes
\* the stored token and assigns window.location.href, which makes the browser
\* leave the document and load the application again at /login.
AuthInterceptStored(resp, stored) == IF resp.status = 401 THEN Null ELSE stored
AuthInterceptPath(resp, path) == IF resp.status = 401 THEN "/login" ELSE path
AuthInterceptUnloading(resp, flag) == IF resp.status = 401 THEN TRUE ELSE flag

\* initializeAuth without its `finally`: isLoading is left as it was.
initializeAuthNoFinally ==
    /\ initPhase = "start"
    /\ IF storedToken = Null
       THEN /\ initPhase' = "done"
            /\ UNCHANGED <<user, isLoading, pending, lastConfig>>
       ELSE IF MockVerify(storedToken) # NoUser
       THEN /\ user' = MockVerify(storedToken)
            /\ initPhase' = "done"
            /\ UNCHANGED <<isLoading, pending, lastConfig>>
       ELSE /\ isLoading' = TRUE /\ initPhase' = "awaiting"
            /\ lastConfig' = AuthRequestConfig("/admin/verify", storedToken)
            /\ pending' = Append(pending, Pending("auth", "verify", "/admin/verify",
                                                  NoAuthBody))
            /\ UNCHANGED user
    /\ UNCHANGED <<pageVars, now, authVars, loginReturn, displayVars, usersVars>>

\* initializeAuth up to its first request (lines 36-55); verifyToken answers
\* for a mock token without a request.
initializeAuth ==
    /\ initPhase = "start"
    /\ IF storedToken = Null
       THEN /\ isLoading' = FALSE /\ initPhase' = "done"
            /\ UNCHANGED <<user, pending, lastConfig>>
       ELSE IF MockVerify(storedToken) # NoUser
       THEN /\ user' = MockVerify(storedToken)
            /\ isLoading' = FALSE /\ initPhase' = "done"
            /\ UNCHANGED <<pending, lastConfig>>
       ELSE /\ isLoading' = TRUE /\ initPhase' = "awaiting"
            /\ lastConfig' = AuthRequestConfig("/admin/verify", storedToken)
            /\ pending' = Append(pending, Pending("auth", "verify", "/admin/verify",
                                                  NoAuthBody))
            /\ UNCHANGED user
    /\ UNCHANGED <<pageVars, now, authVars, loginReturn, displayVars, usersVars>>

\* The rest of verifyToken and initializeAuth, when GET /admin/verify is
\* answered (authService.ts lines 168-173, AuthContext.tsx lines 43-54).
VerifyResponse(i, resp) ==
    LET userData == IF AxiosRejects(resp) THEN NoUser ELSE resp.data.user IN
    /\ i \in 1..Len(pending) /\ pending[i].op = "verify"
    /\ resp \in AuthResponses
    /\ pending' = Remove(pending, i)
    /\ pathname' = AuthInterceptPath(resp, pathname)
    /\ unloading' = AuthInterceptUnloading(resp, unloading)
    /\ IF userData # NoUser
       THEN user' = userData /\ storedToken' = AuthInterceptStored(resp, storedToken)
       ELSE user' = user /\ storedToken' = Null
    /\ isLoading' = FALSE
    /\ initPhase' = "done"
    /\ UNCHANGED <<pageVars, now, authToken, loginReturn, lastConfig, displayVars, usersVars>>

\* A login is under way: the button of the login form is disabled.
LoginPending == \E i \in 1..Len(pending) : pending[i].op = "login"

\* handleSubmit of the login form (Login.tsx lines 46-70) with both fields
\* filled, through AuthContext.login, up to the await of AuthService.login.
handleSubmit(cred) ==
    /\ Screen = "login" /\ ~LoginPending
    /\ cred.email # "" /\ cred.password # ""
    /\ Len(pending) < MaxPending
    /\ loginReturn' = "pending"
    /\ IF MockLogin(cred, now) # NoAuthBody
       THEN /\ pending' = Append(pending, Pending("timer", "login", "",
                                                  MockLogin(cred, now)))
            /\ UNCHANGED lastConfig
       ELSE /\ pending' = Append(pending, Pending("auth", "login", "/admin/login",
                                                  NoAuthBody))
            /\ lastConfig' = AuthRequestConfig("/admin/login", storedToken)
    /\ UNCHANGED <<pageVars, now, authVars, user, isLoading, initPhase, displayVars, usersVars>>

\* AuthContext.login that stores the token before it looks at the response.
FinishLoginEager(response, stored) ==
    /\ storedToken' = IF response.hasData THEN response.token ELSE stored
    /\ IF response.success /\ response.hasData
       THEN user' = response.user /\ loginReturn' = "true"
       ELSE user' = user /\ loginReturn' = "false"

\* AuthContext.login after its await (lines 61-67), for the response that
\* AuthService.login returned and the stored token the interceptor left.
FinishLogin(response, stored) ==
    IF response.success /\ response.hasData
    THEN /\ storedToken' = response.token
         /\ user' = response.user
         /\ loginReturn' = "true"
    ELSE /\ storedToken' = stored
         /\ user' = user
         /\ loginReturn' = "false"

\* The timer of a demo login fires (authService.ts lines 89-90, 113-114).
LoginTimer(i) ==
    /\ i \in 1..Len(pending) /\ pending[i].op = "login" /\ pending[i].client = "timer"
    /\ pending' = Remove(pending, i)
    /\ FinishLogin(pending[i].body, storedToken)
    /\ UNCHANGED <<pageVars, now, authToken, pathname, unloading, isLoading,
                   initPhase, lastConfig, displayVars, usersVars>>

\* POST /admin/login is answered (authService.ts lines 118-130).
LoginResponse(i, resp) ==
    /\ i \in 1..Len(pending) /\ pending[i].op = "login" /\ pending[i].client = "auth"
    /\ resp \in AuthResponses
    /\ pending' = Remove(pending, i)
    /\ pathname' = AuthInterceptPath(resp, pathname)
    /\ unloading' = AuthInterceptUnloading(resp, unloading)
    /\ FinishLogin(IF AxiosRejects(resp) THEN NoAuthBody ELSE resp.data,
                   AuthInterceptStored(resp, storedToken))
    /\ UNCHANGED <<pageVars, now, authToken, isLoading, initPhase, lastConfig,
                   displayVars, usersVars>>

\* logout of AuthContext.tsx without the local clearing: the session is left
\* to the answer of the server.
logoutServerFirst ==
    /\ Screen \notin {"loading", "login"}
    /\ Len(pending) < MaxPending
    /\ lastConfig' = AuthRequestConfig("/admin/logout", storedToken)
    /\ pending' = Append(pending, Pending("auth", "logout", "/admin/logout", NoAuthBody))
    /\ UNCHANGED <<pageVars, now, authVars, user, isLoading, initPhase, loginReturn,
                   displayVars, usersVars>>

\* logout of AuthContext.tsx (lines 74-78), from the header's menu, up to the
\* await of AuthService.logout (line 179).
logout ==
    /\ Screen \notin {"loading", "login"}
    /\ Len(pending) < MaxPending
    /\ storedToken' = Null
    /\ user' = NoUser
    /\ lastConfig' = AuthRequestConfig("/admin/logout", storedToken')
    /\ pending' = Append(pending, Pending("auth", "logout", "/admin/logout", NoAuthBody))
    /\ UNCHANGED <<pageVars, now, authToken, pathname, unloading, isLoading,
                   initPhase, loginReturn, displayVars, usersVars>>

\* POST /admin/logout is answered (authService.ts lines 179-182).
LogoutResponse(i, resp) ==
    /\ i \in 1..Len(pending) /\ pending[i].op = "logout"
    /\ resp \in AuthResponses
    /\ pending' = Remove(pending, i)
    /\ storedToken' = AuthInterceptStored(resp, storedToken)
    /\ pathname' = AuthInterceptPath(resp, pathname)
    /\ unloading' = AuthInterceptUnloading(resp, unloading)
    /\ UNCHANGED <<pageVars, now, authToken, user, isLoading, initPhase, loginReturn,
                   lastConfig, displayVars, usersVars>>

\* The user goes to a route: handleNavigation of the sidebar, or the address
\* bar.
Navigate(path) ==
    /\ path \in RoutePaths /\ path # pathname
    /\ pathname' = path
    /\ UNCHANGED <<pageVars, now, authToken, storedToken, unloading, sessionVars,
                   displayVars, usersVars>>

\* URLs requested with the apiClient of api.ts (lines 334, 382, 473).
ApiUrls == {"/health", "/auth/verify", "/admin/activation-keys"}

\* A page sends a request with the apiClient of api.ts.
ApiRequest(url) ==
    /\ Screen \notin {"loading", "login"}
    /\ Len(pending) < MaxPending
    /\ lastConfig' = ApiRequestConfig(url, authToken)
    /\ pending' = Append(pending, Pending("api", "request", url, NoAuthBody))
    /\ UNCHANGED <<pageVars, now, authVars, user, isLoading, initPhase, loginReturn,
                   displayVars, usersVars>>

\* The request is answered: the response interceptor of api.ts (lines 44-64).
ApiResponse(i, resp) ==
    /\ i \in 1..Len(pending) /\ pending[i].op = "request"
    /\ resp \in ErrorResponses \cup {[status |-> 200, data |-> NoBody]}
    /\ pending' = Remove(pending, i)
    /\ authToken' = InterceptToken(resp, authToken)
    /\ storedToken' = InterceptToken(resp, storedToken)
    /\ pathname' = InterceptPath(resp, pathname)
    /\ unloading' = InterceptUnloading(resp, pathname, unloading)
    /\ UNCHANGED <<pageVars, now, user, isLoading, initPhase, loginReturn, lastConfig,
                   displayVars, usersVars>>

\* The browser leaves the document and loads the application again: api.ts
\* reads the stored token (line 17), AuthProvider starts with no user and
\* isLoading true, and what the old document was waiting for is dropped.
Reload ==
    /\ unloading
    /\ unloading' = FALSE
    /\ authToken' = storedToken
    /\ user' = NoUser
    /\ isLoading' = TRUE
    /\ initPhase' = "start"
    /\ pending' = <<>>
    /\ loginReturn' = "none"
    /\ lastConfig' = NoConfig
    /\ UNCHANGED <<pageVars, now, storedToken, pathname, displayVars, usersVars>>

\* Routes the user goes to while the session is followed.
SessionPaths == {"/login", "/dashboard", "/activation-keys"}

NextSession ==
    \/ initializeAuth
    \/ \E i \in 1..MaxPending, resp \in AuthResponses : VerifyResponse(i, resp)
    \/ \E cred \in Credentials : handleSubmit(cred)
    \/ \E i \in 1..MaxPending : LoginTimer(i)
    \/ \E i \in 1..MaxPending, resp \in AuthResponses : LoginResponse(i, resp)
    \/ logout
    \/ \E i \in 1..MaxPending, resp \in AuthResponses : LogoutResponse(i, resp)
    \/ \E path \in SessionPaths : Navigate(path)
    \/ \E url \in ApiUrls : ApiRequest(url)
    \/ \E i \in 1..MaxPending, resp \in ErrorResponses : ApiResponse(i, resp)
    \/ Reload

SpecSession == InitSession /\ [][NextSession]_vars

(* Signing in and out and moving between all the routes, as time passes. *)

NextAccess ==
    \/ Tick
    \/ initializeAuth
    \/ \E i \in 1..MaxPending, resp \in AuthResponses : VerifyResponse(i, resp)
    \/ \E cred \in Credentials : handleSubmit(cred)
    \/ \E i \in 1..MaxPending : LoginTimer(i)
    \/ \E i \in 1..MaxPending, resp \in AuthResponses : LoginResponse(i, resp)
    \/ logout
    \/ \E i \in 1..MaxPending, resp \in AuthResponses : LogoutResponse(i, resp)
    \/ \E path \in RoutePaths : Navigate(path)
    \/ Reload

SpecAccess == InitSession /\ [][NextAccess]_vars

\* The same with the scheduling the run time gives: the mount effect runs,
\* and every request is answered or times out (axios timeout, line 32).
FairSession ==
    /\ SpecSession
    /\ WF_vars(initializeAuth)
    /\ WF_vars(\E i \in 1..MaxPending, resp \in AuthResponses : VerifyResponse(i, resp))
    /\ WF_vars(Reload)

----------------------------------------------------------------------------
(* Validation again and again: handleCreateKey called repeatedly on one form
   at one time, while the list request of the mount is answered. *)

\* The answer with an empty first page.
EmptyPageResponse ==
    [status |-> 200,
     data |-> [NoBody EXCEPT !.success = TRUE, !.hasData = TRUE, !.hasKeys = TRUE]]

NextRevalidate ==
    \/ handleCreateKey
    \/ \E i \in 1..MaxInFlight : ListResponse(i, EmptyPageResponse)

InitRevalidate == \E f \in FieldForms, t \in 0..MaxNow : InitWith(f, t)

SpecRevalidate == InitRevalidate /\ [][NextRevalidate]_vars

----------------------------------------------------------------------------
(* The key display: ActivationKeyDisplay (ActivationKeys.tsx, from line 1077) *)

\* Longest activation key tried.
MaxKeyLen == 10

\* Characters of a key: a letter and the separator.
KeyChars == {"A", "-"}

\* String.prototype.repeat
RECURSIVE Repeat(_, _)
Repeat(c, n) == IF n <= 0 THEN <<>> ELSE <<c>> \o Repeat(c, n - 1)

\* String.prototype.substring(from, to), with 0-based bounds as in the code:
\* each bound is clamped to 0..length and the smaller one is the start.
Substring(s, from, to) ==
    LET clamp(x) == IF x < 0 THEN 0 ELSE IF x > Len(s) THEN Len(s) ELSE x
        a == clamp(from)
        b == clamp(to)
    IN IF a <= b THEN SubSeq(s, a + 1, b) ELSE SubSeq(s, b + 1, a)

\* maskKey that keeps the first and last four characters of any key.
maskKeyNoShortCase(key) ==
    IF ~Truthy(key) THEN <<>>
    ELSE Substring(key, 0, 4) \o Repeat("*", Len(key) - 8)
            \o Substring(key, Len(key) - 4, Len(key))

\* maskKey (lines 1192-1196)
maskKey(key) ==
    IF ~Truthy(key) THEN <<>>
    ELSE IF Len(key) <= 8 THEN Repeat("*", Len(key))
    ELSE Substring(key, 0, 4) \o Repeat("*", Len(key) - 8)
            \o Substring(key, Len(key) - 4, Len(key))

\* Most clicks on the show/hide button followed.
MaxClicks == 3

\* Longest activation key, and most copies, tried where copying is followed.
MaxCopyKeyLen == 1
MaxCopies == 2

\* The short codes a parent may pass: the empty one and a real one.
ShortCodes == {<<>>, <<"A">>}

\* What a parent may pass besides the key (lines 1098-1108). `given` names
\* the optional props that are present; `onCopy` is a callback, so only its
\* presence is kept. A prop that is absent has no value of its own.
DisplayProps ==
    {p \in [given : SUBSET {"showFullKey", "compact", "shortCode", "onCopy"},
            showFullKey : BOOLEAN, compact : BOOLEAN, shortCode : ShortCodes] :
        /\ "showFullKey" \notin p.given => p.showFullKey = FALSE
        /\ "compact" \notin p.given => p.compact = FALSE
        /\ "shortCode" \notin p.given => p.shortCode = <<>>}

\* The destructured props with their defaults (lines 1110-1120).
showFullKey == IF "showFullKey" \in props.given THEN props.showFullKey ELSE FALSE
compact == IF "compact" \in props.given THEN props.compact ELSE FALSE
shortCode == props.shortCode
onCopy == "onCopy" \in props.given

\* The text the component shows for the key: line 1215 in compact mode,
\* line 1313 in full mode.
DisplayedKey ==
    IF compact
    THEN IF isKeyVisible THEN activationKey ELSE maskKey(activationKey)
    ELSE IF isKeyVisible THEN activationKey ELSE maskKey(activationKey)

\* The component has mounted for the key and props `p` (lines 1121-1126).
MountDisplay(key, p) ==
    /\ activationKey = key
    /\ props = p
    /\ isKeyVisible = (IF "showFullKey" \in p.given THEN p.showFullKey ELSE FALSE)
    /\ clicks = 0
    /\ displaySnackbar = DisplaySnackClosed
    /\ clipboard = <<>>
    /\ onCopyCalls = <<>>
    /\ copying = <<>>
    /\ copyCount = 0

\* The page around the display; the display itself is mounted separately.
InitAroundDisplay ==
    /\ keys = <<>> /\ loading = TRUE /\ error = Null
    /\ isCreateDialogOpen = FALSE /\ isViewDialogOpen = FALSE
    /\ selectedKey = NullKey /\ anchorEl = FALSE
    /\ pagination = [page |-> 0, limit |-> 10, total |-> 0]
    /\ searchTerm = "" /\ statusFilter = "all"
    /\ snackbar = SnackClosed
    /\ formData = EmptyForm /\ formErrors = NoErrors
    /\ now = 0
    /\ generateDisabled = TRUE
    /\ inflight = <<>>
    /\ settled = NotSettled
    /\ authToken = Null /\ storedToken = Null
    /\ pathname = PagePath
    /\ unloading = FALSE
    /\ user = DemoAdmin
    /\ isLoading = FALSE
    /\ initPhase = "done"
    /\ pending = <<>>
    /\ loginReturn = "none"
    /\ lastConfig = NoConfig

\* The component has rendered for some key, in either mode, with
\* showFullKey given or left to its default (line 1117).
InitDisplay ==
    /\ InitAroundDisplay
    /\ NoUsersPage
    /\ \E key \in SeqsUpTo(KeyChars, MaxKeyLen) :
       \E p \in {q \in DisplayProps : q.given \subseteq {"showFullKey", "compact"}} :
          MountDisplay(key, p)

\* A show/hide button that only ever shows.
ToggleKeyShowsOnly ==
    /\ clicks < MaxClicks
    /\ isKeyVisible' = TRUE
    /\ clicks' = clicks + 1
    /\ UNCHANGED <<pageVars, usersVars, now, authVars, sessionVars, activationKey, props,
                   copyVars>>

\* The show/hide button (lines 1220, 1286).
ToggleKeyVisible ==
    /\ clicks < MaxClicks
    /\ isKeyVisible' = ~isKeyVisible
    /\ clicks' = clicks + 1
    /\ UNCHANGED <<pageVars, usersVars, now, authVars, sessionVars, activationKey, props,
                   copyVars>>

NextDisplay == ToggleKeyVisible

SpecDisplay == InitDisplay /\ [][NextDisplay]_vars

\* label.toLowerCase() for the two labels the component uses.
LowerLabel(label) ==
    CASE label = "Activation Key" -> "activation key"
      [] label = "Short Code" -> "short code"

\* The snackbar states set by handleCopyToClipboard.
DisplaySnack(sev, msg) == [open |-> TRUE, message |-> msg, severity |-> sev]
NothingToCopy(label) == DisplaySnack("warning", "No " \o LowerLabel(label) \o " to copy")
CopiedSnack(label) == DisplaySnack("success", label \o " copied to clipboard!")
CopyFailedSnack == DisplaySnack("error", "Failed to copy to clipboard")

\* The controls that copy: the key's text, its icon or button (lines 1211,
\* 1229, 1310, 1332) and, when a short code is there, the short code's
\* (lines 1236-1250, 1339-1348).
CopyControls ==
    {[text |-> activationKey, label |-> "Activation Key"]}
        \cup (IF Truthy(shortCode)
              THEN {[text |-> shortCode, label |-> "Short Code"]} ELSE {})

\* What document.execCommand('copy') can do: copy and return true, copy
\* nothing and return false, or throw.
ExecCommandOutcomes == {"true", "false", "throws"}

\* The rest of handleCopyToClipboard once the text was handed over without
\* an exception (lines 1156-1166).
CopyHandedOver(text, label, written) ==
    /\ clipboard' = IF written THEN Append(clipboard, text) ELSE clipboard
    /\ displaySnackbar' = CopiedSnack(label)
    /\ onCopyCalls' = IF onCopy THEN Append(onCopyCalls, <<text, label>>)
                      ELSE onCopyCalls

\* The catch block (lines 1167-1174).
CopyCaught ==
    /\ displaySnackbar' = CopyFailedSnack
    /\ UNCHANGED <<clipboard, onCopyCalls>>

\* handleCopyToClipboard (lines 1128-1175) up to its first await. `secure`
\* is `navigator.clipboard && window.isSecureContext`; `exec` is what
\* execCommand does if the fallback is taken.
handleCopyToClipboard(text, label, secure, exec) ==
    /\ copyCount < MaxCopies
    /\ copyCount' = copyCount + 1
    /\ IF ~Truthy(text)
       THEN /\ displaySnackbar' = NothingToCopy(label)
            /\ UNCHANGED <<clipboard, onCopyCalls, copying>>
       ELSE IF secure
       THEN /\ copying' = Append(copying, [text |-> text, label |-> label])
            /\ UNCHANGED <<displaySnackbar, clipboard, onCopyCalls>>
       ELSE /\ IF exec = "throws" THEN CopyCaught
               ELSE CopyHandedOver(text, label, exec = "true")
            /\ UNCHANGED copying
    /\ UNCHANGED <<pageVars, usersVars, now, authVars, sessionVars, activationKey,
                   isKeyVisible, props, clicks>>

\* A click on one of the copying controls.
CopyClick ==
    \E c \in CopyControls, secure \in BOOLEAN, exec \in ExecCommandOutcomes :
        handleCopyToClipboard(c.text, c.label, secure, exec)

\* navigator.clipboard.writeText settles and handleCopyToClipboard resumes
\* after its await (line 1141): resolved, the text is on the clipboard.
WriteTextSettled(i, resolved) ==
    /\ i \in 1..Len(copying)
    /\ copying' = Remove(copying, i)
    /\ IF resolved THEN CopyHandedOver(copying[i].text, copying[i].label, TRUE)
       ELSE CopyCaught
    /\ UNCHANGED <<pageVars, usersVars, now, authVars, sessionVars, activationKey,
                   isKeyVisible, props, clicks, copyCount>>

\* The display's snackbar closes (lines 1256, 1383).
CloseDisplaySnackbar ==
    /\ displaySnackbar.open
    /\ displaySnackbar' = [displaySnackbar EXCEPT !.open = FALSE]
    /\ UNCHANGED <<pageVars, usersVars, now, authVars, sessionVars, activationKey,
                   isKeyVisible, props, clicks, clipboard, onCopyCalls,
                   copying, copyCount>>

\* The component has rendered for a short key with any props.
InitCopy ==
    /\ InitAroundDisplay
    /\ NoUsersPage
    /\ \E key \in SeqsUpTo(KeyChars, MaxCopyKeyLen), p \in DisplayProps :
          MountDisplay(key, p)

NextCopy ==
    \/ CopyClick
    \/ \E i \in 1..MaxCopies, resolved \in BOOLEAN : WriteTextSettled(i, resolved)
    \/ CloseDisplaySnackbar

SpecCopy == InitCopy /\ [][NextCopy]_vars

----------------------------------------------------------------------------
(* The Users page (part_001): the list, the row menu, the user dialog and
   the status of a user *)

\* Most users in an answer.
MaxUsers == 1

UsersPath == "/users"
UsersMounted == pathname = UsersPath

\* The users the backend knows.
UserIds == {"u1"}

\* A user as GET /admin/users returns it: of ApiUser, the fields the page's
\* status depends on (isActive, deviceInfo.isActivated).
ApiUsers == [userId : UserIds, isActive : BOOLEAN, isActivated : BOOLEAN]

\* What comes back for a request of the Users page: status 0 stands for no
\* response at all; `success` is the body's field, `users` is data.users.
\* The bodies carry no `error` field.
UsersResponses ==
    [status : {200}, success : {TRUE}, users : SeqsUpTo(ApiUsers, MaxUsers)]
    \cup [status : {0, 200, 401, 500}, success : {FALSE}, users : {<<>>}]

\* The transform of fetchUsers (part_001 lines 117-133), for the fields kept.
TransformUser(apiUser) ==
    [id |-> apiUser.userId,
     status |-> IF apiUser.isActive /\ apiUser.isActivated THEN "active"
                ELSE "inactive"]
TransformUsers(us) == [k \in 1..Len(us) |-> TransformUser(us[k])]

\* GET /admin/users sent by fetchUsers; `caller` is who awaits fetchUsers and
\* `userId`, `newStatus` are the arguments of that caller.
UsersRequest(caller, userId, newStatus) ==
    [kind |-> "users", caller |-> caller, userId |-> userId,
     newStatus |-> newStatus, isActive |-> FALSE]

\* PUT /admin/users/:id/status as updateUserStatus sends it (api.ts lines
\* 427-430) for handleUpdateUserStatus(userId, newStatus) (part_001 line 206).
StatusRequest(userId, newStatus) ==
    [kind |-> "status", caller |-> "handleUpdateUserStatus", userId |-> userId,
     newStatus |-> newStatus, isActive |-> (newStatus = "active")]

\* The Users page has mounted and its effect has called fetchUsers
\* (part_001 lines 155-157).
InitUsers ==
    /\ keys = <<>> /\ loading = TRUE /\ error = Null
    /\ isCreateDialogOpen = FALSE /\ isViewDialogOpen = FALSE
    /\ selectedKey = NullKey /\ anchorEl = FALSE
    /\ pagination = [page |-> 0, limit |-> 10, total |-> 0]
    /\ searchTerm = "" /\ statusFilter = "all"
    /\ snackbar = SnackClosed
    /\ formData = EmptyForm /\ formErrors = NoErrors
    /\ now = 0
    /\ generateDisabled = TRUE
    /\ inflight = <<>>
    /\ settled = NotSettled
    /\ authToken = "tok" /\ storedToken = "tok"
    /\ pathname = UsersPath
    /\ unloading = FALSE
    /\ user = DemoAdmin
    /\ isLoading = FALSE
    /\ initPhase = "done"
    /\ pending = <<>>
    /\ loginReturn = "none"
    /\ lastConfig = NoConfig
    /\ NoDisplay
    /\ UsersPageState(<<UsersRequest("fetchUsers", "", "")>>)

\* What the Users page leaves alone, but for the api client's interceptor.
usersAround == <<pageVars, now, sessionVars, displayVars>>

\* The response interceptor of api.ts (lines 44-64) on an answer to the page.
UsersIntercept(resp) ==
    /\ authToken' = InterceptToken(resp, authToken)
    /\ storedToken' = InterceptToken(resp, storedToken)
    /\ pathname' = InterceptPath(resp, pathname)
    /\ unloading' = InterceptUnloading(resp, pathname, unloading)

\* handleMenuOpen (part_001 lines 159-162), from the button of a row (line
\* 430); the rows are rendered when loading is false (line 568).
UsersMenuOpen(k) ==
    /\ UsersMounted /\ ~usersLoading /\ ~usersAnchorEl /\ ~openDialog
    /\ k \in 1..Len(users)
    /\ usersAnchorEl' = TRUE
    /\ selectedUser' = users[k]
    /\ UNCHANGED <<users, usersLoading, openDialog, dialogType, usersSnackbar,
                   usersInflight, usersAround, authVars>>

\* handleMenuClose (part_001 lines 164-167), as the menu's onClose (line 660).
UsersMenuClose ==
    /\ UsersMounted /\ usersAnchorEl
    /\ usersAnchorEl' = FALSE
    /\ selectedUser' = NoSelectedUser
    /\ UNCHANGED <<users, usersLoading, openDialog, dialogType, usersSnackbar,
                   usersInflight, usersAround, authVars>>

\* handleOpenDialog (part_001 lines 169-174) called by the View Details and
\* Edit User items (lines 662, 666): of the two updates of selectedUser in
\* the handler, the one of handleMenuClose is the last.
handleOpenDialog(type) ==
    /\ UsersMounted /\ usersAnchorEl
    /\ dialogType' = type
    /\ openDialog' = TRUE
    /\ usersAnchorEl' = FALSE
    /\ selectedUser' = NoSelectedUser
    /\ UNCHANGED <<users, usersLoading, usersSnackbar, usersInflight, usersAround,
                   authVars>>

\* handleCloseDialog (part_001 lines 176-179).
handleCloseDialog ==
    /\ UsersMounted /\ openDialog
    /\ openDialog' = FALSE
    /\ selectedUser' = NoSelectedUser
    /\ UNCHANGED <<users, usersLoading, usersAnchorEl, dialogType, usersSnackbar,
                   usersInflight, usersAround, authVars>>

\* The label of the third menu item (part_001 line 678).
StatusItemLabel ==
    IF selectedUser # NoSelectedUser /\ selectedUser.status = "suspended"
    THEN "Reactivate User" ELSE "Suspend User"

\* handleUpdateUserStatus up to its await (part_001 lines 203-206).
handleUpdateUserStatus(userId, newStatus) ==
    /\ Len(usersInflight) < MaxInFlight
    /\ usersLoading' = TRUE
    /\ usersInflight' = Append(usersInflight, StatusRequest(userId, newStatus))
    /\ UNCHANGED <<users, usersAnchorEl, selectedUser, openDialog, dialogType,
                   usersSnackbar, usersAround, authVars>>

\* A click on the third menu item (part_001 lines 670-679).
ClickStatusItem ==
    /\ UsersMounted /\ usersAnchorEl
    /\ selectedUser # NoSelectedUser
    /\ handleUpdateUserStatus(
          selectedUser.id,
          IF selectedUser.status = "suspended" THEN "active" ELSE "suspended")

\* The rest of handleUpdateUserStatus when the PUT is answered (part_001
\* lines 208-232): on success fetchUsers is called and awaited; otherwise
\* the finally block runs.
StatusResponse(i, resp) ==
    /\ UsersMounted
    /\ i \in 1..Len(usersInflight) /\ usersInflight[i].kind = "status"
    /\ IF AxiosRejects(resp) THEN UsersIntercept(resp) ELSE UNCHANGED authVars
    /\ IF ~AxiosRejects(resp) /\ resp.success
       THEN /\ usersSnackbar' =
                 DisplaySnack("success", "User status updated to "
                                             \o usersInflight[i].newStatus)
            /\ usersLoading' = TRUE
            /\ usersInflight' =
                 Append(Remove(usersInflight, i),
                        UsersRequest("handleUpdateUserStatus",
                                     usersInflight[i].userId,
                                     usersInflight[i].newStatus))
            /\ UNCHANGED <<usersAnchorEl, selectedUser>>
       ELSE /\ usersSnackbar' =
                 IF AxiosRejects(resp)
                 THEN DisplaySnack("error", "Failed to update user status. Please try again.")
                 ELSE DisplaySnack("error", "Failed to update user status: undefined")
            /\ usersLoading' = FALSE
            /\ usersInflight' = Remove(usersInflight, i)
            /\ usersAnchorEl' = FALSE
            /\ selectedUser' = NoSelectedUser
    /\ UNCHANGED <<users, openDialog, dialogType, usersAround>>

\* The rest of fetchUsers when GET /admin/users is answered (part_001 lines
\* 115-151), and then, when handleUpdateUserStatus was awaiting it, that
\* handler's finally block (lines 229-232).
UsersListResponse(i, resp) ==
    /\ UsersMounted
    /\ i \in 1..Len(usersInflight) /\ usersInflight[i].kind = "users"
    /\ IF AxiosRejects(resp) THEN UsersIntercept(resp) ELSE UNCHANGED authVars
    /\ users' = IF ~AxiosRejects(resp) /\ resp.success
                THEN TransformUsers(resp.users)
                ELSE <<>>
    /\ usersLoading' = FALSE
    /\ usersInflight' = Remove(usersInflight, i)
    /\ IF usersInflight[i].caller = "handleUpdateUserStatus"
       THEN usersAnchorEl' = FALSE /\ selectedUser' = NoSelectedUser
       ELSE UNCHANGED <<usersAnchorEl, selectedUser>>
    /\ UNCHANGED <<openDialog, dialogType, usersSnackbar, usersAround>>

NextUsers ==
    \/ \E k \in 1..MaxUsers : UsersMenuOpen(k)
    \/ UsersMenuClose
    \/ \E type \in {"view", "edit"} : handleOpenDialog(type)
    \/ handleCloseDialog
    \/ ClickStatusItem
    \/ \E i \in 1..MaxInFlight, resp \in UsersResponses : StatusResponse(i, resp)
    \/ \E i \in 1..MaxInFlight, resp \in UsersResponses : UsersListResponse(i, resp)

SpecUsers == InitUsers /\ [][NextUsers]_vars

----------------------------------------------------------------------------
(* Claims *)

InFlight(kind) == {i \in 1..Len(inflight) : inflight[i].kind = kind}

\* handleCreateKey has validated the form: it warned, or it sent the request.
Validated == snackbar.severity = "warning" \/ InFlight("create") # {}
\* ... and found it valid.
FoundValid == InFlight("create") # {}

Blank(text) == \A i \in 1..Len(text) : text[i] \in Whitespace

\* The six required fields; the form calls the contact information `phone`.
RequiredFields == {"fullName", "email", "role", "facility", "state", "phone"}

\* C1: once a form has been validated, every required field (full name,
\* e-mail, role, facility, state, contact information) that is empty after
\* trimming has an entry in the error map, and the form was found valid only
\* if none of the six is empty.
C1_EveryEmptyRequiredFieldReported ==
    Validated =>
        /\ ~FoundValid =>
              \A fld \in RequiredFields :
                  Blank(formData.userDetails[fld]) => fld \in DOMAIN formErrors
        /\ FoundValid => \A fld \in RequiredFields : ~Blank(formData.userDetails[fld])

\* The time the expiry text parses to is strictly later than the clock.
ParsesToFuture(text) == ~NewDate(text).nan /\ NewDate(text).time > now

\* C2: once a form has been validated, an absent expiresAt is reported as
\* required, an expiresAt that does not parse to a time strictly later than
\* now (equal, earlier, or not a date) as 'must be in the future', and no
\* expiresAt error is reported exactly when it parses to a later time.
C2_ExpiryMustParseToFuture ==
    Validated =>
        /\ formData.expiresAt = "" =>
              /\ "expiresAt" \in DOMAIN formErrors
              /\ formErrors["expiresAt"] = MsgExpiryRequired
        /\ (formData.expiresAt # "" /\ ~ParsesToFuture(formData.expiresAt)) =>
              /\ "expiresAt" \in DOMAIN formErrors
              /\ formErrors["expiresAt"] = MsgExpiryFuture
        /\ (~FoundValid /\ "expiresAt" \notin DOMAIN formErrors)
              => ParsesToFuture(formData.expiresAt)
        /\ FoundValid => ParsesToFuture(formData.expiresAt)

\* The text holds a local part, '@', and a domain with a dot: some '@' has a
\* non-blank character before it and is followed by non-blank characters, a
\* '.', and one more non-blank character.
HasEmailShape(text) ==
    \E at \in 2..Len(text), dot \in 1..(Len(text) - 1) :
        /\ text[at] = "@" /\ text[at - 1] \notin Whitespace
        /\ dot > at + 1 /\ text[dot] = "."
        /\ text[dot + 1] \notin Whitespace
        /\ \A k \in (at + 1)..(dot - 1) : text[k] \notin Whitespace

\* C3: once a form has been validated, an e-mail that is empty after trimming
\* has the 'required' error, any other e-mail without the shape local part,
\* '@', domain with a dot has the different 'invalid' error, and an e-mail of
\* that shape has no error.
C3_EmailRequiredOrInvalid ==
    /\ MsgEmailRequired # MsgEmailInvalid
    /\ Validated =>
        LET email == formData.userDetails.email IN
        IF Blank(email)
        THEN "email" \in DOMAIN formErrors /\ formErrors["email"] = MsgEmailRequired
        ELSE IF ~HasEmailShape(email)
        THEN "email" \in DOMAIN formErrors /\ formErrors["email"] = MsgEmailInvalid
        ELSE "email" \notin DOMAIN formErrors

\* An e-mail with '@' but no dot in its domain was reported invalid.
C3_Witness ==
    /\ Validated
    /\ formData.userDetails.email = <<"a", "@", "a">>
    /\ "email" \in DOMAIN formErrors /\ formErrors["email"] = MsgEmailInvalid

\* C4: whenever the Generate Key handler runs on a form that validation
\* rejects, it records the field errors and shows a warning, and it sends no
\* creation request and leaves the form, the dialog and the key list alone.
C4_InvalidFormNeverDispatched ==
    [][(ClickGenerateKey /\ ~buildErrors(formData, now).valid) =>
          /\ formErrors' = buildErrors(formData, now).errors
          /\ formErrors' # NoErrors
          /\ snackbar'.open /\ snackbar'.severity = "warning"
          /\ inflight' = inflight
          /\ formData' = formData
          /\ isCreateDialogOpen' = isCreateDialogOpen
          /\ keys' = keys]_vars

\* The handler ran on a form that had expired since the button was drawn.
C4_Witness ==
    /\ snackbar.severity = "warning"
    /\ "expiresAt" \in DOMAIN formErrors
    /\ formData = FilledForm
    /\ isCreateDialogOpen

\* C5: handleRevokeKey called with an empty key id reports a local error,
\* sends nothing and leaves the key list alone.
C5_EmptyIdRevokeIsLocal ==
    [][(ClickRevokeKey /\ OrElse(selectedKey.keyId, "") = "") =>
          /\ snackbar' = Snack("error", "Invalid key ID", "")
          /\ inflight' = inflight
          /\ keys' = keys]_vars

\* The row of a key without id was asked to revoke it.
C5_Witness ==
    /\ snackbar.message = "Invalid key ID"
    /\ selectedKey # NullKey /\ selectedKey.keyId = Undefined
    /\ InFlight("revoke") = {}

\* A revoke request is sent in this step.
RevokeDispatched ==
    /\ Len(inflight') = Len(inflight) + 1
    /\ inflight'[Len(inflight')].kind = "revoke"

FailedListResponses == {r \in ListResponses : AxiosRejects(r) \/ ~r.data.success}

\* C7: whenever a list request fails, getActivationKeys resolves instead of
\* rejecting, and the page is left with no keys and a total of zero.
C7_FailedListShowsEmptyPage ==
    [][\A i \in 1..MaxInFlight, resp \in FailedListResponses :
          ListResponse(i, resp) =>
              /\ getActivationKeys(resp).state = "fulfilled"
              /\ keys' = <<>>
              /\ pagination'.total = 0]_vars

\* A failed fetch emptied the page: the user had gone to the second page, so
\* the total had been more than a page.
C7_Witness ==
    /\ error = MsgFetchFailed
    /\ pagination.page = 1
    /\ keys = <<>> /\ pagination.total = 0
    /\ ~loading /\ inflight = <<>>

\* C8: the three activation-key methods never reject, whatever the answer;
\* when there is no response and when the server answers with an HTTP error,
\* 401 included, the promise resolves with a result of one shape: success
\* false and an error text.
C8_FailuresAreResults ==
    settled.api # "none" =>
        /\ settled.state = "fulfilled"
        /\ settled.status # 200 =>
              /\ ~settled.success
              /\ settled.error # Undefined
              /\ settled.error # ""

\* A 401 was turned into a result, after the interceptor cleared the token.
C8_Witness ==
    /\ settled.status = 401
    /\ settled.state = "fulfilled" /\ ~settled.success
    /\ authToken = Null

\* What the server supplied as the reason of a failure, if anything.
ServerSupplied == OrElse(settled.srvError, settled.srvMessage)

\* C9: when key creation fails, the message reported is the server's own, from
\* the error or the message field of its answer, whenever it supplied one, and
\* the fallback 'Failed to create activation key' when it supplied none.
C9_CreationErrorVerbatim ==
    (settled.api = "createActivationKey" /\ ~settled.success) =>
        CreateErrorMessage(settled) =
            IF ServerSupplied # Undefined THEN ServerSupplied ELSE MsgCreateFailed

\* The revoke request at position i is answered in this step.
RevokeAnswered(i) ==
    /\ i \in InFlight("revoke")
    /\ \/ inflight' = Remove(inflight, i)
       \/ /\ Len(inflight') = Len(inflight)
          /\ inflight' # inflight
          /\ SubSeq(inflight', 1, Len(inflight) - 1) = Remove(inflight, i)

\* C10: the key list changes only in a step that answers a list request; the
\* step that answers a revoke request never changes it: after a success it
\* has called fetchKeys (a list request of the handler is in flight and the
\* page is loading) and the handler has not finished (the menu is as it was),
\* after a failure nothing is fetched.
C10_KeysChangeOnlyByFetch ==
    [][/\ keys' # keys =>
             \E i \in InFlight("list") : inflight' = Remove(inflight, i)
       /\ \A i \in 1..MaxInFlight :
             RevokeAnswered(i) =>
                 /\ keys' = keys
                 /\ IF snackbar'.severity = "success"
                    THEN /\ Len(inflight') = Len(inflight)
                         /\ inflight'[Len(inflight')] =
                               ListRequest(inflight[i].params, "handleRevokeKey")
                         /\ loading'
                         /\ <<selectedKey, anchorEl>>' = <<selectedKey, anchorEl>>
                    ELSE Len(inflight') = Len(inflight) - 1]_vars

\* The fetch that follows a successful revocation is in flight.
C10_Witness ==
    /\ snackbar.message = "Activation key revoked successfully"
    /\ \E i \in InFlight("list") : inflight[i].caller = "handleRevokeKey"
    /\ anchorEl

\* C11: a list response whose request was issued for a filter (page, limit,
\* status, search) other than the current one is discarded: the step that
\* receives it changes neither the displayed keys nor the total, so that once
\* every response has arrived the display is the one of the newest request.
C11_StaleListResponseDiscarded ==
    [][\A i \in 1..MaxInFlight, resp \in ListResponses :
          (ListResponse(i, resp) /\ inflight[i].params # CurrentParams) =>
              /\ keys' = keys
              /\ pagination'.total = pagination.total]_vars

\* A request leaves the interceptor of one of the two clients in this step.
RequestSent ==
    /\ Len(pending') = Len(pending) + 1
    /\ pending'[Len(pending')].client \in {"api", "auth"}

\* C12: every request sent with either client while a session token is
\* stored carries that token in its Authorization header as 'Bearer <token>',
\* whether the URL is an admin route or not.
C12_BearerOnEveryRequest ==
    [][(RequestSent /\ storedToken' # Null) =>
          lastConfig'.authorization = "Bearer " \o storedToken']_vars

LoginOutcome(response, stored) ==
    IF response.success /\ response.hasData
    THEN storedToken' = response.token /\ user' = response.user
            /\ loginReturn' = "true"
    ELSE storedToken' = stored /\ user' = user /\ loginReturn' = "false"

\* C14, as stated: login stores the token, sets the user and returns true
\* exactly when the service reported success with data; otherwise it returns
\* false and the stored token and the user are as they were.
C14_TokenWrittenOnlyOnSuccess ==
    [][/\ \A i \in 1..MaxPending :
             LoginTimer(i) => LoginOutcome(pending[i].body, storedToken)
       /\ \A i \in 1..MaxPending, resp \in AuthResponses :
             LoginResponse(i, resp) =>
                 LoginOutcome(IF AxiosRejects(resp) THEN NoAuthBody ELSE resp.data,
                              storedToken)]_vars

\* C14, amended: the same, except that a login the server refuses with 401
\* leaves the stored token removed (by the response interceptor) instead of
\* unchanged; the user is unchanged and login returns false.
C14_TokenWrittenOnlyOnSuccessOr401 ==
    [][/\ \A i \in 1..MaxPending :
             LoginTimer(i) => LoginOutcome(pending[i].body, storedToken)
       /\ \A i \in 1..MaxPending, resp \in AuthResponses :
             LoginResponse(i, resp) =>
                 LoginOutcome(IF AxiosRejects(resp) THEN NoAuthBody ELSE resp.data,
                              IF resp.status = 401 THEN Null ELSE storedToken)]_vars

\* A signed-in user at /login tried other credentials and the server answered
\* 401: login returned false, the user is still set, the token is gone.
C14_Witness ==
    /\ loginReturn = "false"
    /\ user # NoUser
    /\ storedToken = Null
    /\ unloading

\* AuthContext.logout is called in this step: its request leaves.
LogoutCalled ==
    /\ Len(pending') = Len(pending) + 1
    /\ pending'[Len(pending')].op = "logout"

\* C15: the step that calls logout leaves no stored token and no user, so
\* that the login screen renders, before the server has answered; and the
\* answer, whatever it is, restores neither.
C15_LogoutClearsLocalSession ==
    [][/\ LogoutCalled =>
             /\ storedToken' = Null
             /\ user' = NoUser
             /\ Screen' = "login"
       /\ \A i \in 1..MaxPending, resp \in AuthResponses :
             LogoutResponse(i, resp) =>
                 /\ user' = user
                 /\ storedToken' \in {storedToken, Null}]_vars

\* Logged out while the server has not answered yet.
C15_Witness ==
    /\ \E i \in 1..Len(pending) : pending[i].op = "logout"
    /\ storedToken = Null
    /\ user = NoUser
    /\ authToken # Null

\* The session restore of this load of the application finishes in this step.
StartupFinishes == initPhase # "done" /\ initPhase' = "done"

\* C16: the session restore reads the stored token; when it finishes,
\* isLoading is false, and the user is the one the token verified to with the
\* token kept, or, when there was no token or verification failed or threw,
\* there is no user and no stored token.  isLoading never becomes true again
\* in the same load of the application, and whenever it is true it becomes
\* false.
C16_StartupRestoreTerminates ==
    /\ [][/\ StartupFinishes =>
                /\ ~isLoading'
                /\ user = NoUser
                /\ IF storedToken = Null
                   THEN user' = NoUser /\ storedToken' = Null
                   ELSE IF MockVerify(storedToken) # NoUser
                   THEN user' = MockVerify(storedToken) /\ storedToken' = storedToken
                   ELSE \E resp \in AuthResponses :
                           IF ~AxiosRejects(resp) /\ resp.data.user # NoUser
                           THEN user' = resp.data.user /\ storedToken' = storedToken
                           ELSE user' = NoUser /\ storedToken' = Null
          /\ \A i \in 1..MaxPending, resp \in AuthResponses :
                VerifyResponse(i, resp) =>
                    IF ~AxiosRejects(resp) /\ resp.data.user # NoUser
                    THEN user' = resp.data.user /\ storedToken' = storedToken
                    ELSE user' = NoUser /\ storedToken' = Null
          /\ (~isLoading /\ isLoading') => (unloading /\ initPhase' = "start")]_vars
    /\ (isLoading ~> ~isLoading)

\* The stored token failed to verify (the server answered, but not with a
\* user): loading is over, nobody is signed in and the token was removed.
C16_Witness ==
    /\ initPhase = "done" /\ ~isLoading /\ ~unloading
    /\ user = NoUser
    /\ storedToken = Null
    /\ authToken = ServerToken
    /\ loginReturn = "none" /\ pending = <<>>

C18_PagesNeedPermission ==
    Screen \in DOMAIN MenuPermission =>
        /\ \A p \in filteredMenuItems :
              \/ MenuPermission[p] = Undefined
              \/ ArrayIncludes(user.permissions, MenuPermission[p])
              \/ user.role = "super_admin"
        /\ \/ MenuPermission[Screen] = Undefined
           \/ ArrayIncludes(user.permissions, MenuPermission[Screen])
           \/ user.role = "super_admin"

\* The two documented demo accounts.
DemoAccounts ==
    {[email |-> "admin@nso.gov.ng", password |-> "admin123"],
     [email |-> "analyst@nso.gov.ng", password |-> "analyst123"]}

\* C19: a login with a demo account is answered without the server and
\* succeeds with the account's own user; when it finishes, login returns true
\* and verifying the token it stored gives the very user it set (id, name,
\* e-mail, role and permissions); and at any time a user signed in under a
\* stored mock token is the user that token verifies to, so a restored session
\* has the identity and permissions of the original one.
C19_DemoSessionRoundTrip ==
    /\ [][/\ \A cred \in DemoAccounts :
                handleSubmit(cred) =>
                    LET call == pending'[Len(pending')] IN
                    /\ call.client = "timer"
                    /\ call.body.success /\ call.body.hasData
                    /\ call.body.user.email = cred.email
                    /\ MockVerify(call.body.token) = call.body.user
          /\ \A i \in 1..MaxPending :
                LoginTimer(i) =>
                    /\ loginReturn' = "true"
                    /\ user' \in {DemoAdmin, DemoAnalyst}
                    /\ storedToken' # Null
                    /\ MockVerify(storedToken') = user']_vars
    /\ [](/\ user # NoUser
          /\ storedToken # Null
          /\ StartsWith(storedToken, "mock-")
          => MockVerify(storedToken) = user)

\* A session of the analyst account, started by a login at time 1, was
\* restored after the application had loaded again.
C19_Witness ==
    /\ initPhase = "done" /\ loginReturn = "none"
    /\ storedToken = MockAnalystToken(1)
    /\ user = DemoAnalyst

C21_DefaultRenderingShowsKey ==
    ("showFullKey" \notin props.given /\ clicks = 0) =>
        DisplayedKey = activationKey

Odd(n) == n % 2 = 1

\* C22: the key's visibility starts equal to showFullKey and every click on
\* the show/hide button flips it, so that with showFullKey = false the full
\* key is shown after an odd number of clicks and the masked key after an
\* even number; a click never changes the key.
C22_ToggleFlipsVisibility ==
    /\ [](/\ clicks = 0 => isKeyVisible = showFullKey
          /\ isKeyVisible = (showFullKey # Odd(clicks))
          /\ ~showFullKey =>
                DisplayedKey = IF Odd(clicks) THEN activationKey
                               ELSE maskKey(activationKey))
    /\ [][ToggleKeyVisible =>
            /\ isKeyVisible' = ~isKeyVisible
            /\ activationKey' = activationKey]_vars

\* After three clicks a display that started hidden shows a ten-character
\* key in full, which its mask would not.
C22_Witness ==
    /\ ~showFullKey /\ clicks = 3
    /\ Len(activationKey) = 10
    /\ DisplayedKey = activationKey
    /\ maskKey(activationKey) # activationKey

\* A step in which handleCopyToClipboard came to its end for `text`.
CopyEnded(text, label) ==
    \/ \E secure \in BOOLEAN, exec \in ExecCommandOutcomes :
          /\ handleCopyToClipboard(text, label, secure, exec)
          /\ copying' = copying
    \/ \E i \in 1..Len(copying), resolved \in BOOLEAN :
          /\ copying[i] = [text |-> text, label |-> label]
          /\ WriteTextSettled(i, resolved)

\* The texts and labels a copy can be about.
CopyTexts == SeqsUpTo(KeyChars, MaxCopyKeyLen) \cup ShortCodes
CopyLabels == {"Activation Key", "Short Code"}

\* C23: a copy of a non-empty text puts exactly that text on the clipboard
\* or puts nothing there; the onCopy callback, when one was passed, is called
\* with (text, label) if and only if the text was put on the clipboard; when
\* it was not, the notification 'Failed to copy to clipboard' is shown; a
\* copy of the empty text writes nothing and does not call onCopy.
C23_CopyOutcome ==
    [][\A text \in CopyTexts, label \in CopyLabels :
        CopyEnded(text, label) =>
            LET written == clipboard' = Append(clipboard, text)
                called == onCopyCalls' = Append(onCopyCalls, <<text, label>>)
            IN /\ written \/ clipboard' = clipboard
               /\ called \/ onCopyCalls' = onCopyCalls
               /\ Truthy(text) /\ onCopy => (called <=> written)
               /\ Truthy(text) /\ ~written => displaySnackbar' = CopyFailedSnack
               /\ ~Truthy(text) => ~written /\ ~called]_vars

\* The list requests among the requests `q`.
ListsIn(q) == {j \in 1..Len(q) : q[j].kind = "list"}

\* The step in which handleCreateKey learns that its key was created.
CreationSucceeded(i, resp) ==
    /\ CreateResponse(i, resp)
    /\ createActivationKey(resp).state = "fulfilled"
    /\ createActivationKey(resp).value.success

\* C24: a successful key creation, from whatever page the user is on (the
\* first page included), leaves the page number at the first page and issues
\* a new list fetch for it.
C24_CreationRefreshesList ==
    [][\A i \in 1..MaxInFlight, resp \in PostResponses :
        CreationSucceeded(i, resp) =>
            /\ pagination'.page = 0
            /\ Cardinality(ListsIn(inflight')) = Cardinality(ListsIn(inflight)) + 1
            /\ inflight'[Len(inflight')] =
                   ListRequest(FetchParams(pagination', searchTerm', statusFilter'),
                               "fetchKeys")]_vars

\* Two creation requests are in flight at once.
C25_Witness == Cardinality(InFlight("create")) = 2


\* C25: creation requests are independent. A click on Generate Key with a
\* valid form dispatches a creation request whether or not an earlier one is
\* still in flight, and the answer to one creation request shows the result
\* of that answer and leaves every other request in flight.
C25_CreationsAreIndependent ==
    [][/\ ClickGenerateKey /\ buildErrors(formData, now).valid =>
            inflight' = Append(inflight, CreateRequest)
       /\ \A i \in 1..MaxInFlight, resp \in PostResponses :
            CreateResponse(i, resp) =>
                /\ SubSeq(inflight', 1, Len(inflight) - 1) = Remove(inflight, i)
                /\ (snackbar'.severity = "success") <=>
                       /\ createActivationKey(resp).state = "fulfilled"
                       /\ createActivationKey(resp).value.success]_vars


\* C28: whenever a list fetch or a creation request of the page is in
\* flight, loading is true, under every interleaving of fetches and
\* creations.
C28_LoadingCoversEveryRequest ==
    (InFlight("list") # {} \/ InFlight("create") # {}) => loading


\* C26: the token held in memory by the API client of api.ts equals the
\* token persisted under 'admin_token': both absent, or the same string.
C26_OneSessionToken == authToken = storedToken

\* The application shows its authenticated state: a user is set.
isAuthenticated == user # NoUser

\* C27: whenever isAuthenticated is true, a token is stored under
\* 'admin_token'.
C27_AuthenticatedHasStoredToken == isAuthenticated => storedToken # Null


\* C29: choosing View Details from a row's menu opens the details dialog on
\* the record whose menu was opened, and while the details dialog is open the
\* selected record is not null.
C29_DetailsDialogHasSubject ==
    /\ [](isViewDialogOpen => selectedKey # NullKey)
    /\ [][ClickViewDetails =>
            /\ isViewDialogOpen'
            /\ selectedKey' = selectedKey
            /\ selectedKey' # NullKey]_vars


\* The answer `resp` lists the user `id` as not active.
ListedInactive(resp, id) ==
    /\ ~AxiosRejects(resp) /\ resp.success
    /\ \E k \in 1..Len(resp.users) :
          resp.users[k].userId = id /\ ~resp.users[k].isActive

\* The list on display shows the user `id` with the status given.
Displayed(list, id, status) ==
    \E k \in 1..Len(list) : list[k].id = id /\ list[k].status = status

\* C30: when a user was suspended with success and the list fetched again
\* (the backend listing the user as not active), the user is displayed with
\* status 'suspended'; the menu of a user displayed as suspended offers
\* 'Reactivate User', and that item sends isActive = true.
C30_SuspensionIsReversible ==
    [][/\ \A i \in 1..MaxInFlight, resp \in UsersResponses :
            (/\ UsersListResponse(i, resp)
             /\ usersInflight[i].caller = "handleUpdateUserStatus"
             /\ usersInflight[i].newStatus = "suspended"
             /\ ListedInactive(resp, usersInflight[i].userId))
                => Displayed(users', usersInflight[i].userId, "suspended")
       /\ (ClickStatusItem /\ selectedUser.status = "suspended") =>
            /\ StatusItemLabel = "Reactivate User"
            /\ usersInflight'[Len(usersInflight')].isActive]_vars

====
